---- MODULE Spec2Model ----
(***************************************************************************)
(* Model of the HotStuff proposal handler of the validator node            *)
(* (dan_layer/consensus/src/hotstuff/on_receive_proposal.rs) together with *)
(* the state-store records it reads and writes: blocks, quorum             *)
(* certificates, the LastVoted / LockedBlock / LastExecuted / high_qc      *)
(* markers, the transaction pool, the substate locks, the executed         *)
(* transactions and the awaiting-transactions index.                       *)
(*                                                                         *)
(* Every handler is a pure operator from a store value (a record, one per  *)
(* validator) and its inputs to the new store value and the outputs        *)
(* (messages to the leader, published events, pacemaker beats).  A write   *)
(* transaction that returns an error leaves the store as it was; what the  *)
(* handler sent on a channel before the error stays sent.                  *)
(***************************************************************************)
EXTENDS Integers, Sequences, FiniteSets, TLC

VARIABLES
    store,      \* [validator -> state store of that validator]
    outbox,     \* [validator -> sequence of messages sent on tx_leader]
    events,     \* [validator -> sequence of HotstuffEvent::BlockCommitted block ids]
    beats,      \* [validator -> number of on_beat.beat() calls]
    returned,   \* [validator -> what its last handle / reprocess_block call returned]
    gossip      \* the p2p services of one validator node and the overlay they use

vars == <<store, outbox, events, beats, returned, gossip>>

(***************************************************************************)
(* Bounds of the model.                                                    *)
(***************************************************************************)
\* local blocks a validator stores besides genesis
MaxBlocks == 3
\* foreign proposals a validator handles
MaxForeign == 2
\* local blocks a validator stores besides genesis, in SpecChain
MaxChain == 4
\* messages a validator sends to the leader; events it publishes
MaxOut == 6
\* epochs the epoch manager knows
MaxEpoch == 2

(***************************************************************************)
(* The epoch manager's answers (one epoch): committees per shard bucket,   *)
(* as the consensus tests' builder sets them up.                           *)
(***************************************************************************)
Shards == {"A", "B", "C"}

Members == [A |-> <<"v1", "v3">>, B |-> <<"v2">>, C |-> <<"v4">>]

Addrs == {"v1", "v2", "v3", "v4"}

Range(s) == {s[i] : i \in DOMAIN s}

\* get_validator_node(epoch, addr).shard_key -> get_committee_shard
ShardOfAddr(a) == CHOOSE sh \in Shards : a \in Range(Members[sh])

\* get_local_committee(epoch) of validator v
get_local_committee(v) == Members[ShardOfAddr(v)]

\* the leader strategy of the consensus tests: SelectedIndexLeaderStrategy::new(0)
get_leader(committee, block_id) == committee[1]

(***************************************************************************)
(* Substates and the shard each lives in; CommitteeShard::filter keeps the *)
(* substates of the validator's own shard.                                 *)
(***************************************************************************)
Substates == {"s1", "s2", "f1", "f2"}

ShardOfSubstate == [s1 |-> "A", s2 |-> "A", f1 |-> "B", f2 |-> "C"]

filter(shard, ids) == {s \in ids : ShardOfSubstate[s] = shard}

TxIds == {"t1", "t2"}

Decisions == {"Commit", "Abort"}

Stages == {"New", "Prepared", "LocalPrepared", "AllPrepared", "SomePrepared", "Complete"}

(***************************************************************************)
(* Blocks.  A block id is the hash of the block's content; the hash is     *)
(* modelled as the injective encoding of the hashed fields.                *)
(***************************************************************************)
GenesisId == <<"genesis">>

GenesisQc == [block_id |-> GenesisId, block_height |-> 0]

GenesisBlock ==
    [id |-> GenesisId, parent |-> GenesisId, justify |-> GenesisQc,
     height |-> 0, commands |-> <<>>]

calculate_hash(block) ==
    <<"h", block.parent, block.justify.block_id, block.justify.block_height,
      block.height, block.commands>>

Cmd(kind, t, d) == [kind |-> kind, tx |-> t, decision |-> d]

\* Block::all_transaction_ids
all_transaction_ids(block) == {block.commands[i].tx : i \in DOMAIN block.commands}

(***************************************************************************)
(* State store: reads.                                                     *)
(***************************************************************************)
block_exists(db, id) == \E b \in db.blocks : b.id = id

get_block(db, id) == CHOOSE b \in db.blocks : b.id = id

\* Block::extends: walk the parent chain from the block until the ancestor
\* or a block of lower height (or a parent that is not stored) is reached.
RECURSIVE is_ancestor(_, _, _)
is_ancestor(db, id, ancestor) ==
    IF id = ancestor THEN TRUE
    ELSE IF ~block_exists(db, id) THEN FALSE
    ELSE LET b == get_block(db, id) IN
         IF b.height = 0 \/ ~block_exists(db, ancestor) THEN FALSE
         ELSE IF b.height <= get_block(db, ancestor).height THEN FALSE
         ELSE is_ancestor(db, b.parent, ancestor)

extends(db, block, ancestor) ==
    IF block.id = ancestor THEN FALSE
    ELSE is_ancestor(db, block.parent, ancestor)

(***************************************************************************)
(* State store: transaction pool records.                                  *)
(***************************************************************************)
None == {}

Some(x) == {x}

unwrap(opt) == CHOOSE x \in opt : TRUE

pool_exists(db, t) == t \in DOMAIN db.pool

\* TransactionPoolRecord::update_evidence: the QC id is added to the evidence
\* of every shard of the transaction that the committee shard includes
update_evidence(db, t, shard, qc_id) ==
    [db EXCEPT !.pool[t].evidence =
        [sh \in DOMAIN @ |-> IF sh = shard THEN @[sh] \cup {qc_id} ELSE @[sh]]]

\* Evidence::all_shards_complete
all_shards_complete(rec) == \A sh \in DOMAIN rec.evidence : rec.evidence[sh] # {}

\* TransactionPoolRecord::update_decision
update_decision(db, t, d) == [db EXCEPT !.pool[t].changed_decision = Some(d)]

\* TransactionPoolRecord::transition
transition(db, t, stage, is_ready) ==
    [db EXCEPT !.pool[t].stage = stage, !.pool[t].is_ready = is_ready]

\* TransactionPoolRecord::final_decision
final_decision(rec) ==
    IF rec.changed_decision # None THEN unwrap(rec.changed_decision)
    ELSE rec.original_decision

\* TransactionPoolRecord::remove
pool_remove(db, t) ==
    [db EXCEPT !.pool = [x \in (DOMAIN db.pool) \ {t} |-> db.pool[x]]]

(***************************************************************************)
(* State store: substate locks.  lock_state is Unlocked (w and r empty),   *)
(* ReadLocked (r: the set of holders) or WriteLocked (w: the holder).      *)
(***************************************************************************)
can_lock(db, s, flag) ==
    /\ s \in DOMAIN db.locks
    /\ db.locks[s].w = {}
    /\ flag = "Write" => db.locks[s].r = {}

\* try_lock_many that grants every lock it is asked for
try_lock_many_unchecked(db, t, ids, flag) ==
    [is_acquired |-> TRUE,
     db |-> [db EXCEPT !.locks =
               [s \in DOMAIN @ |->
                   IF s \notin ids THEN @[s]
                   ELSE IF flag = "Write" THEN [@[s] EXCEPT !.w = @ \cup {t}]
                   ELSE [@[s] EXCEPT !.r = @ \cup {t}]]]]

\* SubstateRecord::try_lock_many: acquire all or none
try_lock_many(db, t, ids, flag) ==
    IF \A s \in ids : can_lock(db, s, flag)
    THEN [is_acquired |-> TRUE,
          db |-> [db EXCEPT !.locks =
                    [s \in DOMAIN @ |->
                        IF s \notin ids THEN @[s]
                        ELSE IF flag = "Write" THEN [@[s] EXCEPT !.w = {t}]
                        ELSE [@[s] EXCEPT !.r = @ \cup {t}]]]]
    ELSE [is_acquired |-> FALSE, db |-> db]

\* SubstateRecord::try_unlock_many: release the locks of that kind the
\* transaction holds on the given substates
try_unlock_many(db, t, ids, flag) ==
    [db EXCEPT !.locks =
        [s \in DOMAIN @ |->
            IF s \notin ids THEN @[s]
            ELSE IF flag = "Write" THEN [@[s] EXCEPT !.w = @ \ {t}]
            ELSE [@[s] EXCEPT !.r = @ \ {t}]]]

(***************************************************************************)
(* State store: markers and quorum certificates.                           *)
(***************************************************************************)
\* QuorumCertificate::save / Block::save: insert if it does not exist
qc_save(db, qc) == [db EXCEPT !.qcs = @ \cup {qc}]

block_save(db, block) ==
    IF block_exists(db, block.id) THEN db ELSE [db EXCEPT !.blocks = @ \cup {block}]

as_marker(block) == [block_id |-> block.id, height |-> block.height]

\* hotstuff::common::update_high_qc: keep the higher of the stored and the given QC
update_high_qc(db, qc) ==
    IF db.high_qc.block_height < qc.block_height
    THEN [qc_save(db, qc) EXCEPT !.high_qc = qc]
    ELSE db

(***************************************************************************)
(* Proposal validation.                                                    *)
(***************************************************************************)
\* validate_proposed_block that compares the hash before it looks for genesis
validate_proposed_block_hash_first(block) ==
    IF calculate_hash(block) # block.id THEN "NodeHashMismatch"
    ELSE IF block.height = 0 \/ block.id = GenesisId THEN "ProposingGenesisBlock"
    ELSE "Ok"

validate_proposed_block(block) ==
    IF block.height = 0 \/ block.id = GenesisId THEN "ProposingGenesisBlock"
    ELSE IF calculate_hash(block) # block.id THEN "NodeHashMismatch"
    ELSE "Ok"

\* validation of a local proposal without the lookup of the justify block
validate_local_without_justify(db, block) == validate_proposed_block(block)

validate_local_proposed_block(db, block) ==
    LET v == validate_proposed_block(block) IN
    IF v # "Ok" THEN v
    ELSE IF ~block_exists(db, block.justify.block_id) THEN "JustifyBlockNotFound"
    ELSE IF get_block(db, block.justify.block_id).height # block.justify.block_height
         THEN "JustifyBlockInvalid"
    ELSE "Ok"

(***************************************************************************)
(* The voting predicate.                                                   *)
(***************************************************************************)
is_safe_block(db, block, locked_block) ==
    IF block.justify.block_height <= locked_block.height THEN FALSE
    ELSE extends(db, block, locked_block.id)

\* should_vote without the height rule
should_vote_any_height(db, block) ==
    IF db.last_voted = None THEN TRUE
    ELSE is_safe_block(db, block, get_block(db, db.locked_block.block_id))

\* should_vote that abstains while no LastVoted marker exists
should_vote_after_first(db, block) ==
    IF db.last_voted = None THEN FALSE
    ELSE IF block.height <= unwrap(db.last_voted).height THEN FALSE
    ELSE is_safe_block(db, block, get_block(db, db.locked_block.block_id))

should_vote(db, block) ==
    IF db.last_voted = None THEN TRUE
    ELSE IF block.height <= unwrap(db.last_voted).height THEN FALSE
    ELSE is_safe_block(db, block, get_block(db, db.locked_block.block_id))

(***************************************************************************)
(* Substate locks of a transaction.                                        *)
(***************************************************************************)
lock_inputs(db, t, shard) ==
    LET transaction == db.executed[t]
        w == try_lock_many(db, t,
                 filter(shard, transaction.inputs \cup transaction.filled_inputs), "Write")
    IN  IF ~w.is_acquired THEN [ok |-> FALSE, db |-> w.db]
        ELSE LET r == try_lock_many(w.db, t, filter(shard, transaction.input_refs), "Read")
             IN  IF ~r.is_acquired THEN [ok |-> FALSE, db |-> r.db]
                 ELSE [ok |-> TRUE, db |-> r.db]

unlock_inputs(db, t, shard) ==
    LET transaction == db.executed[t]
        w == try_unlock_many(db, t,
                 filter(shard, transaction.inputs \cup transaction.filled_inputs), "Write")
    IN  try_unlock_many(w, t, filter(shard, transaction.input_refs), "Read")

(***************************************************************************)
(* decide_what_to_vote: one operator per match arm; each answers whether   *)
(* the command passes (ok) and the store after it.                         *)
(***************************************************************************)
\* the Prepare arm that marks the transaction aborted when its inputs cannot be locked
decide_prepare_abort_on_conflict(db, cmd, shard) ==
    LET t == cmd.tx
        rec == db.pool[t]
    IN  IF rec.stage # "New" THEN [ok |-> FALSE, db |-> db]
        ELSE IF rec.original_decision = cmd.decision
        THEN IF rec.original_decision = "Commit"
             THEN LET l == lock_inputs(db, t, shard) IN
                  IF ~l.ok THEN [ok |-> FALSE, db |-> update_decision(l.db, t, "Abort")]
                  ELSE [ok |-> TRUE, db |-> transition(l.db, t, "Prepared", TRUE)]
             ELSE [ok |-> TRUE, db |-> transition(db, t, "Prepared", TRUE)]
        ELSE [ok |-> FALSE, db |-> db]

\* the Prepare arm that locks the inputs whatever the decision is
decide_prepare_lock_always(db, cmd, shard) ==
    LET t == cmd.tx
        rec == db.pool[t]
    IN  IF rec.stage # "New" THEN [ok |-> FALSE, db |-> db]
        ELSE IF rec.original_decision = cmd.decision
        THEN LET l == lock_inputs(db, t, shard) IN
             IF ~l.ok THEN [ok |-> FALSE, db |-> l.db]
             ELSE [ok |-> TRUE, db |-> transition(l.db, t, "Prepared", TRUE)]
        ELSE [ok |-> FALSE, db |-> db]

decide_prepare(db, cmd, shard) ==
    LET t == cmd.tx
        rec == db.pool[t]
    IN  IF rec.stage # "New" THEN [ok |-> FALSE, db |-> db]
        ELSE IF rec.original_decision = cmd.decision
        THEN IF rec.original_decision = "Commit"
             THEN LET l == lock_inputs(db, t, shard) IN
                  IF ~l.ok THEN [ok |-> FALSE, db |-> l.db]
                  ELSE [ok |-> TRUE, db |-> transition(l.db, t, "Prepared", TRUE)]
             ELSE [ok |-> TRUE, db |-> transition(db, t, "Prepared", TRUE)]
        ELSE [ok |-> FALSE, db |-> db]

\* the LocalPrepared arm without the look at the evidence: Prepared -> LocalPrepared
decide_local_prepared_no_evidence(db, cmd, shard) ==
    LET t == cmd.tx
        rec == db.pool[t]
    IN  IF rec.stage = "New" THEN [ok |-> FALSE, db |-> db]
        ELSE IF /\ rec.original_decision # cmd.decision
                /\ (IF rec.changed_decision # None
                    THEN unwrap(rec.changed_decision) # cmd.decision ELSE TRUE)
        THEN [ok |-> FALSE, db |-> db]
        ELSE IF rec.stage = "Prepared"
        THEN [ok |-> TRUE, db |-> transition(db, t, "LocalPrepared", FALSE)]
        ELSE [ok |-> TRUE, db |-> db]

decide_local_prepared(db, cmd, shard) ==
    LET t == cmd.tx
        rec == db.pool[t]
    IN  IF rec.stage = "New" THEN [ok |-> FALSE, db |-> db]
        ELSE IF /\ rec.original_decision # cmd.decision
                /\ (IF rec.changed_decision # None
                    THEN unwrap(rec.changed_decision) # cmd.decision ELSE TRUE)
        THEN [ok |-> FALSE, db |-> db]
        ELSE LET db1 == IF rec.stage = "Prepared"
                        THEN transition(db, t, "LocalPrepared", FALSE) ELSE db
                 rec1 == db1.pool[t]
             IN  IF all_shards_complete(rec1)
                 THEN IF rec1.changed_decision = Some("Abort")
                      THEN [ok |-> TRUE, db |-> transition(db1, t, "SomePrepared", TRUE)]
                      ELSE [ok |-> TRUE, db |-> transition(db1, t, "AllPrepared", TRUE)]
                 ELSE [ok |-> TRUE, db |-> db1]

\* the Accept arm without the comparison of the decisions
decide_accept_any_decision(db, cmd, shard) ==
    LET t == cmd.tx
        rec == db.pool[t]
    IN  IF rec.stage # "AllPrepared" /\ rec.stage # "SomePrepared"
        THEN [ok |-> FALSE, db |-> db]
        ELSE [ok |-> TRUE, db |-> transition(db, t, "Complete", FALSE)]

decide_accept(db, cmd, shard) ==
    LET t == cmd.tx
        rec == db.pool[t]
    IN  IF rec.stage # "AllPrepared" /\ rec.stage # "SomePrepared"
        THEN [ok |-> FALSE, db |-> db]
        ELSE IF final_decision(rec) # cmd.decision THEN [ok |-> FALSE, db |-> db]
        ELSE [ok |-> TRUE, db |-> transition(db, t, "Complete", FALSE)]

decide_command(db, cmd, shard) ==
    CASE cmd.kind = "Prepare" -> decide_prepare(db, cmd, shard)
      [] cmd.kind = "LocalPrepared" -> decide_local_prepared(db, cmd, shard)
      [] cmd.kind = "Accept" -> decide_accept(db, cmd, shard)

\* the loop over block.commands() from command i on
RECURSIVE decide_commands(_, _, _, _)
decide_commands(db, block, shard, i) ==
    IF i > Len(block.commands)
    THEN [err |-> FALSE, db |-> db, decision |-> Some("Accept")]
    ELSE LET cmd == block.commands[i] IN
         IF ~pool_exists(db, cmd.tx)
         THEN [err |-> TRUE, db |-> db, decision |-> None]
         ELSE LET r == decide_command(
                          update_evidence(db, cmd.tx, shard, block.justify), cmd, shard)
              IN  IF ~r.ok THEN [err |-> FALSE, db |-> r.db, decision |-> None]
                  ELSE decide_commands(r.db, block, shard, i + 1)

\* decide_what_to_vote that sets LastVoted only for a block it votes for
decide_what_to_vote_mark_votes(db, block, shard) ==
    LET r == decide_commands(db, block, shard, 1) IN
    IF r.decision # None THEN [r EXCEPT !.db.last_voted = Some(as_marker(block))] ELSE r

decide_what_to_vote(db, block, shard) ==
    decide_commands([db EXCEPT !.last_voted = Some(as_marker(block))], block, shard, 1)

(***************************************************************************)
(* Execution of committed blocks.                                          *)
(***************************************************************************)
\* StateManager::commit_transaction: the transaction's substate diff is applied
commit_transaction(db, t) == [db EXCEPT !.applied[t] = @ + 1]

\* ExecutedTransaction::set_final_decision(..).update
set_final_decision(db, t, d) == [db EXCEPT !.executed[t].final_decision = Some(d)]

\* execute of an Accept that unlocks the inputs of committed transactions only
execute_accept_unlock_on_commit(db, cmd, shard) ==
    LET t == cmd.tx
        db1 == IF cmd.decision = "Commit"
               THEN unlock_inputs(commit_transaction(db, t), t, shard) ELSE db
    IN  set_final_decision(pool_remove(db1, t), t, cmd.decision)

execute_accept(db, cmd, shard) ==
    LET t == cmd.tx
        db1 == IF cmd.decision = "Commit" THEN commit_transaction(db, t) ELSE db
        db2 == unlock_inputs(db1, t, shard)
    IN  set_final_decision(pool_remove(db2, t), t, cmd.decision)

\* the loop over block.commands() from command i on
RECURSIVE execute_commands(_, _, _, _)
execute_commands(db, block, shard, i) ==
    IF i > Len(block.commands) THEN [err |-> FALSE, db |-> db]
    ELSE LET cmd == block.commands[i] IN
         IF ~pool_exists(db, cmd.tx) THEN [err |-> TRUE, db |-> db]
         ELSE IF cmd.kind = "Accept"
         THEN execute_commands(execute_accept(db, cmd, shard), block, shard, i + 1)
         ELSE execute_commands(db, block, shard, i + 1)

execute(db, block, shard) == execute_commands(db, block, shard, 1)

\* events: the BlockCommitted events published so far by this call
RECURSIVE on_commit(_, _, _, _)
on_commit(db, last_executed, block, shard) ==
    IF last_executed.height < block.height
    THEN IF ~block_exists(db, block.parent)
         THEN [err |-> TRUE, db |-> db, events |-> <<>>]
         ELSE LET p == on_commit(db, last_executed, get_block(db, block.parent), shard) IN
              IF p.err THEN p
              ELSE LET e == execute(p.db, block, shard) IN
                   IF e.err THEN [err |-> TRUE, db |-> p.db, events |-> p.events]
                   ELSE [err |-> FALSE, db |-> e.db,
                         events |-> Append(p.events, block.id)]
    ELSE [err |-> FALSE, db |-> db, events |-> <<>>]

\* update_nodes that sets LockedBlock to b' whatever the stored locked height is
update_nodes_always_lock(db, block, shard) ==
    LET db1 == update_high_qc(db, block.justify)
        quiet == [err |-> FALSE, db |-> db1, events |-> <<>>]
    IN  IF ~block_exists(db1, block.justify.block_id) THEN quiet
        ELSE LET commit_node == get_block(db1, block.justify.block_id) IN
        IF ~block_exists(db1, commit_node.justify.block_id) THEN quiet
        ELSE LET precommit_node == get_block(db1, commit_node.justify.block_id)
                 db2 == [db1 EXCEPT !.locked_block = as_marker(precommit_node)]
                 prepare_node == precommit_node.justify.block_id
             IN  IF /\ commit_node.parent = precommit_node.id
                    /\ precommit_node.parent = prepare_node
                 THEN LET c == on_commit(db2, db2.last_executed, block, shard) IN
                      IF c.err THEN c
                      ELSE [c EXCEPT !.db.last_executed = as_marker(block)]
                 ELSE [err |-> FALSE, db |-> db2, events |-> <<>>]

update_nodes(db, block, shard) ==
    LET db1 == update_high_qc(db, block.justify)
        quiet == [err |-> FALSE, db |-> db1, events |-> <<>>]
    IN  IF ~block_exists(db1, block.justify.block_id) THEN quiet
        ELSE LET commit_node == get_block(db1, block.justify.block_id) IN
        IF ~block_exists(db1, commit_node.justify.block_id) THEN quiet
        ELSE LET precommit_node == get_block(db1, commit_node.justify.block_id)
                 db2 == IF precommit_node.height > db1.locked_block.height
                        THEN [db1 EXCEPT !.locked_block = as_marker(precommit_node)]
                        ELSE db1
                 prepare_node == precommit_node.justify.block_id
             IN  IF /\ commit_node.parent = precommit_node.id
                    /\ precommit_node.parent = prepare_node
                 THEN LET c == on_commit(db2, db2.last_executed, block, shard) IN
                      IF c.err THEN c
                      ELSE [c EXCEPT !.db.last_executed = as_marker(block)]
                 ELSE [err |-> FALSE, db |-> db2, events |-> <<>>]

(***************************************************************************)
(* Local proposals.                                                        *)
(***************************************************************************)
VoteMessage(v, block) ==
    [type |-> "Vote", to |-> get_leader(get_local_committee(v), block.id),
     block_id |-> block.id, decision |-> "Accept", transactions |-> {}]

RequestMissingTransactionsMessage(v, block, missing) ==
    [type |-> "RequestMissingTransactions",
     to |-> get_leader(get_local_committee(v), block.id),
     block_id |-> block.id, decision |-> "None", transactions |-> missing]

\* process_block that updates the nodes only for a block it votes for
process_block_update_when_voting(db, v, block) ==
    LET shard == ShardOfAddr(v)
        d == IF should_vote(db, block) THEN decide_what_to_vote(db, block, shard)
             ELSE [err |-> FALSE, db |-> db, decision |-> None]
        u == IF d.err THEN [err |-> TRUE, db |-> db, events |-> <<>>]
             ELSE IF d.decision = None THEN [err |-> FALSE, db |-> d.db, events |-> <<>>]
             ELSE update_nodes(d.db, block, shard)
    IN  IF u.err
        THEN [db |-> db, out |-> <<>>, events |-> u.events, result |-> "StorageError"]
        ELSE [db |-> u.db,
              out |-> IF d.decision # None THEN <<VoteMessage(v, block)>> ELSE <<>>,
              events |-> u.events, result |-> "Ok"]

\* process_block whose write transaction is not rolled back when a step fails
process_block_no_rollback(db, v, block) ==
    LET shard == ShardOfAddr(v)
        d == IF should_vote(db, block) THEN decide_what_to_vote(db, block, shard)
             ELSE [err |-> FALSE, db |-> db, decision |-> None]
        u == IF d.err THEN [err |-> TRUE, db |-> d.db, events |-> <<>>]
             ELSE update_nodes(d.db, block, shard)
    IN  IF u.err
        THEN [db |-> u.db, out |-> <<>>, events |-> u.events, result |-> "StorageError"]
        ELSE [db |-> u.db,
              out |-> IF d.decision # None THEN <<VoteMessage(v, block)>> ELSE <<>>,
              events |-> u.events, result |-> "Ok"]

\* process_block that sends the vote it decided on before the write transaction
\* has committed: the vote stays sent when update_nodes fails
process_block_vote_first(db, v, block) ==
    LET shard == ShardOfAddr(v)
        d == IF should_vote(db, block) THEN decide_what_to_vote(db, block, shard)
             ELSE [err |-> FALSE, db |-> db, decision |-> None]
        u == IF d.err THEN [err |-> TRUE, db |-> db, events |-> <<>>]
             ELSE update_nodes(d.db, block, shard)
        out == IF d.decision # None THEN <<VoteMessage(v, block)>> ELSE <<>>
    IN  IF u.err
        THEN [db |-> db, out |-> out, events |-> u.events, result |-> "StorageError"]
        ELSE [db |-> u.db, out |-> out, events |-> u.events, result |-> "Ok"]

\* one write transaction: should_vote, decide_what_to_vote, update_nodes; then the vote
process_block(db, v, block) ==
    LET shard == ShardOfAddr(v)
        d == IF should_vote(db, block) THEN decide_what_to_vote(db, block, shard)
             ELSE [err |-> FALSE, db |-> db, decision |-> None]
        u == IF d.err THEN [err |-> TRUE, db |-> db, events |-> <<>>]
             ELSE update_nodes(d.db, block, shard)
    IN  IF u.err
        THEN [db |-> db, out |-> <<>>, events |-> u.events, result |-> "StorageError"]
        ELSE [db |-> u.db,
              out |-> IF d.decision # None THEN <<VoteMessage(v, block)>> ELSE <<>>,
              events |-> u.events, result |-> "Ok"]

\* a lookup of the executed transactions that finds every transaction
missing_transactions_none(db, block) == {}

missing_transactions(db, block) ==
    {t \in all_transaction_ids(block) : t \notin DOMAIN db.executed}

\* handle_local_proposal that saves the justify QC and the block before it validates
handle_local_proposal_save_first(db, v, block) ==
    LET db1 == block_save(qc_save(db, block.justify), block)
        valid == validate_local_proposed_block(db, block)
    IN  IF valid # "Ok"
        THEN [db |-> db1, out |-> <<>>, events |-> <<>>, result |-> valid]
        ELSE LET missing == missing_transactions(db1, block) IN
             IF missing # {}
             THEN [db |-> [db1 EXCEPT !.missing = @ \cup {[block_id |-> block.id,
                                                          transactions |-> missing]}],
                   out |-> <<RequestMissingTransactionsMessage(v, block, missing)>>,
                   events |-> <<>>, result |-> "Ok"]
             ELSE process_block(db1, v, block)

handle_local_proposal(db, v, block) ==
    LET valid == validate_local_proposed_block(db, block) IN
    IF valid # "Ok"
    THEN [db |-> db, out |-> <<>>, events |-> <<>>, result |-> valid]
    ELSE LET db1 == block_save(qc_save(db, block.justify), block)
             missing == missing_transactions(db1, block)
         IN  IF missing # {}
             THEN [db |-> [db1 EXCEPT !.missing = @ \cup {[block_id |-> block.id,
                                                          transactions |-> missing]}],
                   out |-> <<RequestMissingTransactionsMessage(v, block, missing)>>,
                   events |-> <<>>, result |-> "Ok"]
             ELSE process_block(db1, v, block)

reprocess_block(db, v, block_id) ==
    IF ~block_exists(db, block_id)
    THEN [db |-> db, out |-> <<>>, events |-> <<>>, result |-> "StorageError"]
    ELSE process_block(db, v, get_block(db, block_id))

(***************************************************************************)
(* Foreign proposals.                                                      *)
(***************************************************************************)
\* the foreign LocalPrepared that records the evidence and keeps the decision
foreign_local_prepared_keep_decision(db, block, cmd, foreign_shard) ==
    LET t == cmd.tx IN
    IF ~pool_exists(db, t) THEN db
    ELSE IF db.pool[t].stage = "Complete" THEN db
    ELSE LET db1 == update_evidence(db, t, foreign_shard, block.justify) IN
         IF db1.pool[t].stage = "LocalPrepared" /\ all_shards_complete(db1.pool[t])
         THEN transition(db1, t, "AllPrepared", TRUE)
         ELSE db1

\* the handling of a foreign LocalPrepared that records evidence and decision
\* and leaves the stage to the local commands
foreign_local_prepared_no_transition(db, block, cmd, foreign_shard) ==
    LET t == cmd.tx IN
    IF ~pool_exists(db, t) THEN db
    ELSE IF db.pool[t].stage = "Complete" THEN db
    ELSE LET db1 == update_evidence(db, t, foreign_shard, block.justify)
             change_to_abort ==
                 cmd.decision = "Abort" /\ db1.pool[t].original_decision = "Commit"
         IN  IF change_to_abort THEN update_decision(db1, t, "Abort") ELSE db1

\* the handling of a foreign LocalPrepared that does not look at the stage
foreign_local_prepared_any_stage(db, block, cmd, foreign_shard) ==
    LET t == cmd.tx IN
    IF ~pool_exists(db, t) THEN db
    ELSE LET db1 == update_evidence(db, t, foreign_shard, block.justify)
             change_to_abort ==
                 cmd.decision = "Abort" /\ db1.pool[t].original_decision = "Commit"
             db2 == IF change_to_abort THEN update_decision(db1, t, "Abort") ELSE db1
         IN  IF db2.pool[t].stage = "LocalPrepared" /\ all_shards_complete(db2.pool[t])
             THEN IF change_to_abort
                  THEN transition(db2, t, "SomePrepared", TRUE)
                  ELSE transition(db2, t, "AllPrepared", TRUE)
             ELSE db2

foreign_local_prepared(db, block, cmd, foreign_shard) ==
    LET t == cmd.tx IN
    IF ~pool_exists(db, t) THEN db
    ELSE IF db.pool[t].stage = "Complete" THEN db
    ELSE LET db1 == update_evidence(db, t, foreign_shard, block.justify)
             change_to_abort ==
                 cmd.decision = "Abort" /\ db1.pool[t].original_decision = "Commit"
             db2 == IF change_to_abort THEN update_decision(db1, t, "Abort") ELSE db1
         IN  IF db2.pool[t].stage = "LocalPrepared" /\ all_shards_complete(db2.pool[t])
             THEN IF change_to_abort
                  THEN transition(db2, t, "SomePrepared", TRUE)
                  ELSE transition(db2, t, "AllPrepared", TRUE)
             ELSE db2

\* the loop over block.commands() from command i on
RECURSIVE foreign_commands(_, _, _, _)
foreign_commands(db, block, foreign_shard, i) ==
    IF i > Len(block.commands) THEN db
    ELSE LET cmd == block.commands[i] IN
         IF cmd.kind # "LocalPrepared"
         THEN foreign_commands(db, block, foreign_shard, i + 1)
         ELSE foreign_commands(foreign_local_prepared(db, block, cmd, foreign_shard),
                               block, foreign_shard, i + 1)

\* on_receive_foreign_block that also saves the foreign block
on_receive_foreign_block_save_block(db, block, foreign_shard) ==
    foreign_commands(block_save(qc_save(db, block.justify), block), block, foreign_shard, 1)

on_receive_foreign_block(db, block, foreign_shard) ==
    foreign_commands(qc_save(db, block.justify), block, foreign_shard, 1)

\* handle_foreign_proposal that notifies the pacemaker before the write transaction
handle_foreign_proposal_beat_first(db, from, block, storage_fails) ==
    LET valid == validate_proposed_block(block) IN
    IF valid # "Ok"
    THEN [db |-> db, out |-> <<>>, events |-> <<>>, result |-> valid, beat |-> FALSE]
    ELSE IF storage_fails
    THEN [db |-> db, out |-> <<>>, events |-> <<>>, result |-> "StorageError",
          beat |-> TRUE]
    ELSE [db |-> on_receive_foreign_block(db, block, ShardOfAddr(from)),
          out |-> <<>>, events |-> <<>>, result |-> "Ok", beat |-> TRUE]

\* beat: whether on_beat.beat() is called.  storage_fails: a store call inside
\* on_receive_foreign_block returns an error; with_write_tx rolls back and the
\* error is returned by the ? operator before the beat
handle_foreign_proposal_tx(db, from, block, storage_fails) ==
    LET valid == validate_proposed_block(block) IN
    IF valid # "Ok"
    THEN [db |-> db, out |-> <<>>, events |-> <<>>, result |-> valid, beat |-> FALSE]
    ELSE IF storage_fails
    THEN [db |-> db, out |-> <<>>, events |-> <<>>, result |-> "StorageError",
          beat |-> FALSE]
    ELSE [db |-> on_receive_foreign_block(db, block, ShardOfAddr(from)),
          out |-> <<>>, events |-> <<>>, result |-> "Ok", beat |-> TRUE]

\* the handler when the store answers every call
handle_foreign_proposal(db, from, block) ==
    handle_foreign_proposal_tx(db, from, block, FALSE)

is_local(v, from) == from \in Range(get_local_committee(v))

no_beat(r) ==
    [db |-> r.db, out |-> r.out, events |-> r.events, result |-> r.result,
     beat |-> FALSE]

handle(db, v, from, block) ==
    IF is_local(v, from)
    THEN no_beat(handle_local_proposal(db, v, block))
    ELSE handle_foreign_proposal(db, from, block)

(***************************************************************************)
(* The gossip services of the validator node: ConsensusGossipService       *)
(* (p2p/services/consensus_gossip/service.rs) and MempoolGossip            *)
(* (p2p/services/mempool/gossip.rs).  The state g holds is_subscribed of   *)
(* both services, the topics the overlay has this node subscribed to, the  *)
(* overlay calls of the operation in progress, and the epoch manager's     *)
(* answers.  fails names the overlay calls that return an error.           *)
(***************************************************************************)
Epochs == 1..MaxEpoch

ShardGroups == {[start |-> 0, end |-> 31], [start |-> 32, end |-> 63]}

\* shard_group_to_topic: format!("{}-{}-{}", TOPIC_PREFIX, start, end)
shard_group_to_topic(shard_group) == <<"consensus", shard_group.start, shard_group.end>>

\* format!("transactions-{}", bucket)
transactions_topic(bucket) == <<"transactions", bucket>>

\* what the epoch manager answers for an epoch this validator is not registered in
NotRegistered ==
    [registered |-> FALSE, shard_group |-> [start |-> 0, end |-> 0], bucket |-> 0,
     num_shard_group_members |-> 0]

\* a shard group with this validator alone, or with one more member
MemberCounts == {1, 2}

\* get_local_committee_info / get_local_committee_shard of a registered validator
CommitteeInfos ==
    {[registered |-> TRUE, shard_group |-> sg, bucket |-> sg.start \div 32,
      num_shard_group_members |-> n] : sg \in ShardGroups, n \in MemberCounts}

HotstuffMessages == {<<"Proposal", "b1">>, <<"Vote">>}

\* proto encoding with length-delimited framing
encode_to(message) == <<Len(message)>> \o message

\* one call of the overlay: it is recorded, and takes effect unless it fails
networking(g, op, topic, data, fails) ==
    LET ok == op \notin fails IN
    [ok |-> ok,
     g |-> [g EXCEPT
               !.calls = Append(@, [op |-> op, topic |-> topic, data |-> data, ok |-> ok]),
               !.topics = IF ~ok THEN @
                          ELSE IF op = "subscribe_topic" THEN @ \cup {topic}
                          ELSE IF op = "unsubscribe_topic" THEN @ \ {topic}
                          ELSE @]]

\* unsubscribe that clears is_subscribed before the overlay call has succeeded
unsubscribe_clear_first(g, fails) ==
    IF g.is_subscribed = None THEN [g |-> g, result |-> "Ok"]
    ELSE LET n == networking([g EXCEPT !.is_subscribed = None], "unsubscribe_topic",
                             shard_group_to_topic(unwrap(g.is_subscribed)), <<>>, fails)
         IN  [g |-> n.g, result |-> IF n.ok THEN "Ok" ELSE "Err"]

unsubscribe(g, fails) ==
    IF g.is_subscribed = None THEN [g |-> g, result |-> "Ok"]
    ELSE LET n == networking(g, "unsubscribe_topic",
                             shard_group_to_topic(unwrap(g.is_subscribed)), <<>>, fails)
         IN  IF ~n.ok THEN [g |-> n.g, result |-> "Err"]
             ELSE [g |-> [n.g EXCEPT !.is_subscribed = None], result |-> "Ok"]

\* subscribe that does not release the topic of another shard group
subscribe_keep_old_topic(g, epoch, fails) ==
    LET committee_shard == g.committees[epoch] IN
    IF ~committee_shard.registered THEN [g |-> g, result |-> "Err"]
    ELSE IF g.is_subscribed = Some(committee_shard.shard_group)
    THEN [g |-> g, result |-> "Ok"]
    ELSE LET n == networking(g, "subscribe_topic",
                             shard_group_to_topic(committee_shard.shard_group), <<>>, fails)
         IN  IF ~n.ok THEN [g |-> n.g, result |-> "Err"]
             ELSE [g |-> [n.g EXCEPT !.is_subscribed = Some(committee_shard.shard_group)],
                   result |-> "Ok"]

subscribe(g, epoch, fails) ==
    LET committee_shard == g.committees[epoch] IN
    IF ~committee_shard.registered THEN [g |-> g, result |-> "Err"]
    ELSE IF g.is_subscribed = Some(committee_shard.shard_group)
    THEN [g |-> g, result |-> "Ok"]
    ELSE LET u == IF g.is_subscribed # None THEN unsubscribe(g, fails)
                  ELSE [g |-> g, result |-> "Ok"]
         IN  IF u.result # "Ok" THEN u
             ELSE LET n == networking(u.g, "subscribe_topic",
                                      shard_group_to_topic(committee_shard.shard_group),
                                      <<>>, fails)
                  IN  IF ~n.ok THEN [g |-> n.g, result |-> "Err"]
                      ELSE [g |-> [n.g EXCEPT
                                      !.is_subscribed = Some(committee_shard.shard_group)],
                            result |-> "Ok"]

num_shard_group_members(g) ==
    IF g.committees[g.current_epoch].registered
    THEN g.committees[g.current_epoch].num_shard_group_members
    ELSE 0

\* multicast that publishes whatever the size of the local shard group is
multicast_always(g, shard_group, message, fails) ==
    LET n == networking(g, "publish_gossip", shard_group_to_topic(shard_group),
                        encode_to(message), fails)
    IN  [g |-> n.g, result |-> IF n.ok THEN "Ok" ELSE "Err"]

multicast(g, shard_group, message, fails) ==
    IF num_shard_group_members(g) < 2 THEN [g |-> g, result |-> "Ok"]
    ELSE LET n == networking(g, "publish_gossip", shard_group_to_topic(shard_group),
                             encode_to(message), fails)
         IN  [g |-> n.g, result |-> IF n.ok THEN "Ok" ELSE "Err"]

\* MempoolGossip::unsubscribe
mempool_unsubscribe(g, fails) ==
    IF g.mempool_is_subscribed = None THEN [g |-> g, result |-> "Ok"]
    ELSE LET n == networking(g, "unsubscribe_topic",
                             transactions_topic(unwrap(g.mempool_is_subscribed)), <<>>, fails)
         IN  IF ~n.ok THEN [g |-> n.g, result |-> "Err"]
             ELSE [g |-> [n.g EXCEPT !.mempool_is_subscribed = None], result |-> "Ok"]

\* MempoolGossip::subscribe
mempool_subscribe(g, epoch, fails) ==
    LET committee_shard == g.committees[epoch] IN
    IF ~committee_shard.registered THEN [g |-> g, result |-> "Err"]
    ELSE IF g.mempool_is_subscribed = Some(committee_shard.bucket)
    THEN [g |-> g, result |-> "Ok"]
    ELSE LET u == IF g.mempool_is_subscribed # None THEN mempool_unsubscribe(g, fails)
                  ELSE [g |-> g, result |-> "Ok"]
         IN  IF u.result # "Ok" THEN u
             ELSE LET n == networking(u.g, "subscribe_topic",
                                      transactions_topic(committee_shard.bucket), <<>>, fails)
                  IN  IF ~n.ok THEN [g |-> n.g, result |-> "Err"]
                      ELSE [g |-> [n.g EXCEPT
                                      !.mempool_is_subscribed = Some(committee_shard.bucket)],
                            result |-> "Ok"]

\* the shard ids of the transactions that are forwarded, and the numbers of
\* committees the epoch manager may answer
GossipShardIds == {0, 16, 32, 48}

CommitteeCounts == {2, 4}

\* ShardId::to_committee_bucket(n): the shard space 0..63 in n equal ranges
to_committee_bucket(shard, n) == shard \div (64 \div n)

\* proto::network::DanMessage::from(&msg)
proto_from(msg) == <<"proto", msg>>

\* the loop over the buckets, in the iteration order of the HashSet; the call
\* number fail_at of the overlay returns an error (0: none does)
RECURSIVE publish_to_buckets(_, _, _, _, _)
publish_to_buckets(g, order, msg, fail_at, i) ==
    IF i > Len(order) THEN [g |-> g, result |-> "Ok"]
    ELSE LET n == networking(g, "publish_message", transactions_topic(order[i]), msg,
                             IF i = fail_at THEN {"publish_message"} ELSE {})
         IN  IF ~n.ok THEN [g |-> n.g, result |-> "Err"]
             ELSE publish_to_buckets(n.g, order, msg, fail_at, i + 1)

Buckets == 0..3

\* orders in which a HashSet of buckets may iterate
BucketOrders == {<<0, 1, 2, 3>>, <<3, 2, 1, 0>>}

\* the publish call that may fail, counted from the first (0: none fails)
FailAt == 0..2

\* the elements of a bucket set in the order the HashSet iterates
iterate(buckets, order) == SelectSeq(order, LAMBDA b : b \in buckets)

\* forward_to_foreign_replicas that does not filter the local bucket
forward_to_foreign_replicas_unfiltered(g, epoch, shards, msg, exclude_bucket, n, order, fail_at) ==
    IF ~g.committees[epoch].registered THEN [g |-> g, result |-> "Err"]
    ELSE LET buckets == {b \in {to_committee_bucket(sh, n) : sh \in shards} :
                            exclude_bucket # Some(b)}
         IN  publish_to_buckets(g, iterate(buckets, order), proto_from(msg), fail_at, 1)

\* MempoolGossip::forward_to_foreign_replicas; n is the epoch manager's answer to
\* get_num_committees and order the iteration order of the bucket set
forward_to_foreign_replicas(g, epoch, shards, msg, exclude_bucket, n, order, fail_at) ==
    IF ~g.committees[epoch].registered THEN [g |-> g, result |-> "Err"]
    ELSE LET local_bucket == g.committees[epoch].bucket
             buckets == {b \in {to_committee_bucket(sh, n) : sh \in shards} :
                            exclude_bucket # Some(b) /\ b # local_bucket}
         IN  publish_to_buckets(g, iterate(buckets, order), proto_from(msg), fail_at, 1)

\* MempoolGossip::forward_to_local_replicas
forward_to_local_replicas(g, epoch, msg, fails) ==
    IF ~g.committees[epoch].registered THEN [g |-> g, result |-> "Err"]
    ELSE LET n == networking(g, "publish_message",
                             transactions_topic(g.committees[epoch].bucket),
                             proto_from(msg), fails)
         IN  [g |-> n.g, result |-> IF n.ok THEN "Ok" ELSE "Err"]

\* ProstCodec::decode_from: the length prefix, then a message of that length
decode_from(data) ==
    IF Len(data) >= 1 /\ data[1] = Len(data) - 1 /\ Tail(data) \in HotstuffMessages
    THEN [ok |-> TRUE, msg |-> Tail(data)]
    ELSE [ok |-> FALSE, msg |-> <<>>]

\* handle_incoming_gossip_message that forwards the payload as it came
handle_incoming_gossip_message_undecoded(g, from, data, send_fails) ==
    IF send_fails THEN [g |-> g, result |-> "InvalidMessage"]
    ELSE [g |-> [g EXCEPT !.consensus_channel = Append(@, <<from, data>>)],
          result |-> "Ok"]

\* handle_incoming_gossip_message; send_fails: the consensus channel is closed
handle_incoming_gossip_message(g, from, data, send_fails) ==
    LET d == decode_from(data) IN
    IF ~d.ok THEN [g |-> g, result |-> "InvalidMessage"]
    ELSE IF send_fails THEN [g |-> g, result |-> "InvalidMessage"]
    ELSE [g |-> [g EXCEPT !.consensus_channel = Append(@, <<from, d.msg>>)],
          result |-> "Ok"]

\* run, the rx_gossip arm: an error of the handler is logged and the loop goes on
run_gossip_message(g, from, data, send_fails) ==
    LET r == handle_incoming_gossip_message(g, from, data, send_fails) IN
    [g |-> r.g, result |-> r.result]

\* run, the events arm: EpochChanged(epoch) subscribes when the validator is
\* registered; an error of the epoch manager or of subscribe is returned by run
\* through the ? operator
run_epoch_changed(g, epoch, fails, epoch_manager_fails) ==
    LET g1 == [g EXCEPT !.current_epoch = epoch] IN
    IF epoch_manager_fails THEN [g |-> [g1 EXCEPT !.running = FALSE], result |-> "Err"]
    ELSE IF ~g1.committees[epoch].registered THEN [g |-> g1, result |-> "Ok"]
    ELSE LET r == subscribe(g1, epoch, fails) IN
         IF r.result = "Ok" THEN r
         ELSE [g |-> [r.g EXCEPT !.running = FALSE], result |-> "Err"]

\* run, the else arm: every channel is closed, the loop breaks and run
\* unsubscribes and returns
run_shutdown(g, fails) ==
    LET u == unsubscribe(g, fails) IN
    [g |-> [u.g EXCEPT !.running = FALSE], result |-> u.result]

(***************************************************************************)
(* The mempool executor (p2p/services/mempool/executor.rs).  The answers   *)
(* of the substate resolver and the outcome of the execution are inputs;   *)
(* the calls made are recorded in g.calls and the value returned in        *)
(* g.execution.                                                            *)
(***************************************************************************)
ResolverErrors ==
    {"UnauthorizedFeeClaim", "InputSubstateDowned", "InputSubstateDoesNotExist",
     "NetworkError"}

Ok(value) == [ok |-> TRUE, value |-> value]

Err(err) == [ok |-> FALSE, value |-> err]

\* a call of the resolver or of the executor, recorded
invoked(g, op) == [g EXCEPT !.calls = Append(@, [op |-> op])]

\* collect::<IndexSet<_>>(): the elements in order, each kept where it comes first
RECURSIVE index_set(_)
index_set(seq) ==
    IF seq = <<>> THEN <<>>
    ELSE LET front == index_set(SubSeq(seq, 1, Len(seq) - 1))
             last == seq[Len(seq)]
         IN  IF \E i \in DOMAIN front : front[i] = last THEN front ELSE Append(front, last)

\* VersionedSubstateId::new(id, substate.version()) of every resolved input
versioned_inputs(inputs) ==
    index_set([i \in DOMAIN inputs |-> [substate_id |-> inputs[i].id,
                                         version |-> inputs[i].substate.version]])

\* the lock flag that compares substate id and version with the down set
lock_flag_by_version(diff, versioned_id) ==
    IF \E d \in diff.down : d = <<versioned_id.substate_id, versioned_id.version>>
    THEN "Write" ELSE "Read"

\* Write for an input that the diff downs, Read for any other
lock_flag(diff, versioned_id) ==
    IF \E d \in diff.down : d[1] = versioned_id.substate_id THEN "Write" ELSE "Read"

\* the resolved inputs of an executed transaction
resolved_inputs(executed, versioned) ==
    IF executed.finalize.accept = None THEN <<>>
    ELSE index_set([i \in DOMAIN versioned |->
                       [versioned_substate_id |-> versioned[i],
                        lock_flag |-> lock_flag(unwrap(executed.finalize.accept),
                                                versioned[i])]])

\* the closure run by spawn_blocking; a panic of the worker is a JoinError
spawn_blocking(g, inputs, execution) ==
    LET versioned == versioned_inputs(inputs)
        g1 == invoked(g, "execute")
    IN  IF execution.panicked
        THEN [g |-> [g1 EXCEPT !.execution = Err("ExecutionThreadFailure")],
              result |-> "Err"]
        ELSE IF ~execution.returned.ok
        THEN [g |-> [g1 EXCEPT !.execution = Ok(Err(execution.returned.value))],
              result |-> "Ok(Err)"]
        ELSE [g |-> [g1 EXCEPT !.execution =
                        Ok(Ok([execution.returned.value EXCEPT !.resolved_inputs =
                                  resolved_inputs(execution.returned.value, versioned)]))],
              result |-> "Ok(Ok)"]

\* execute_transaction that treats every resolver error as a transaction failure
execute_transaction_all_failures(g, virtual_substates, resolved, execution) ==
    LET g1 == invoked(g, "resolve_virtual_substates") IN
    IF ~virtual_substates.ok
    THEN [g |-> [g1 EXCEPT !.execution = Ok(Err(virtual_substates.value))],
          result |-> "Ok(Err)"]
    ELSE LET g2 == invoked(g1, "resolve") IN
         IF resolved.ok THEN spawn_blocking(g2, resolved.value, execution)
         ELSE [g |-> [g2 EXCEPT !.execution = Ok(Err(resolved.value))],
               result |-> "Ok(Err)"]

execute_transaction(g, virtual_substates, resolved, execution) ==
    LET g1 == invoked(g, "resolve_virtual_substates") IN
    IF ~virtual_substates.ok
    THEN IF virtual_substates.value = "UnauthorizedFeeClaim"
         THEN [g |-> [g1 EXCEPT !.execution = Ok(Err(virtual_substates.value))],
               result |-> "Ok(Err)"]
         ELSE [g |-> [g1 EXCEPT !.execution = Err(virtual_substates.value)],
               result |-> "Err"]
    ELSE LET g2 == invoked(g1, "resolve") IN
         IF resolved.ok THEN spawn_blocking(g2, resolved.value, execution)
         ELSE IF resolved.value \in {"InputSubstateDowned", "InputSubstateDoesNotExist"}
         THEN [g |-> [g2 EXCEPT !.execution = Ok(Err(resolved.value))],
               result |-> "Ok(Err)"]
         ELSE [g |-> [g2 EXCEPT !.execution = Err(resolved.value)],
               result |-> "Err"]

\* the services after construction, with the epoch manager's answers
GossipInit(committees) ==
    [is_subscribed |-> None, mempool_is_subscribed |-> None, topics |-> {},
     calls |-> <<>>, current_epoch |-> 1, committees |-> committees,
     op |-> <<"new">>, result |-> "Ok", running |-> TRUE, consensus_channel |-> <<>>,
     execution |-> None]

GossipStart == GossipInit([e \in Epochs |-> NotRegistered])

(***************************************************************************)
(* The environment: the mempool that inserts executed transactions, and    *)
(* the proposals the network delivers.                                     *)
(***************************************************************************)
Validators == {"v1", "v2", "v4"}

Transaction(inputs, filled_inputs, input_refs) ==
    [inputs |-> inputs, filled_inputs |-> filled_inputs, input_refs |-> input_refs]

\* the transactions the mempool may hand to consensus
TxShapes ==
    [t1 |-> {Transaction({"s1", "f1", "f2"}, {}, {})},
     t2 |-> {Transaction({"s2"}, {}, {"s1"}), Transaction({}, {"s1"}, {})}]

involved_shards(tx) ==
    {ShardOfSubstate[s] : s \in tx.inputs \cup tx.filled_inputs \cup tx.input_refs}

\* the mempool stores the executed transaction and its pool record (stage New)
insert_transaction(db, t, tx, decision) ==
    [db EXCEPT
        !.executed = [x \in DOMAIN @ \cup {t} |->
            IF x = t THEN [inputs |-> tx.inputs, filled_inputs |-> tx.filled_inputs,
                           input_refs |-> tx.input_refs, decision |-> decision,
                           final_decision |-> None]
            ELSE @[x]],
        !.pool = [x \in DOMAIN @ \cup {t} |->
            IF x = t THEN [stage |-> "New", original_decision |-> decision,
                           changed_decision |-> None, is_ready |-> TRUE,
                           evidence |-> [sh \in involved_shards(tx) |-> {}]]
            ELSE @[x]]]

\* the store after the genesis block of the epoch is created
InitStore(v) ==
    [blocks |-> {GenesisBlock},
     qcs |-> {GenesisQc},
     last_voted |-> None,
     locked_block |-> as_marker(GenesisBlock),
     last_executed |-> as_marker(GenesisBlock),
     high_qc |-> GenesisQc,
     pool |-> <<>>,
     executed |-> <<>>,
     locks |-> [s \in filter(ShardOfAddr(v), Substates) |-> [w |-> {}, r |-> {}]],
     applied |-> [t \in TxIds |-> 0],
     missing |-> {}]

Block(parent, justify, height, commands) ==
    LET content == [id |-> <<"bad">>, parent |-> parent, justify |-> justify,
                    height |-> height, commands |-> commands]
    IN  [content EXCEPT !.id = calculate_hash(content)]

QcOf(block) == [block_id |-> block.id, block_height |-> block.height]

UnknownId == <<"unknown">>

CmdsOf(t) == {Cmd(k, t, d) : k \in {"Prepare", "LocalPrepared", "Accept"}, d \in Decisions}

\* proposals that fail validation
BadBlocks ==
    LET b == Block(GenesisId, GenesisQc, 1, <<>>) IN
    {[b EXCEPT !.id = <<"bad">>], [b EXCEPT !.id = GenesisId],
     Block(GenesisId, GenesisQc, 0, <<>>),
     Block(GenesisId, [block_id |-> UnknownId, block_height |-> 1], 1, <<>>),
     Block(GenesisId, [block_id |-> GenesisId, block_height |-> 1], 1, <<>>)}

ForeignQc(shard) == [block_id |-> <<"foreign", shard>>, block_height |-> 1]

ForeignBlocks(shard) ==
    {Block(<<"foreign", shard>>, ForeignQc(shard), 2, c) :
        c \in {<<Cmd("LocalPrepared", "t1", d)>> : d \in Decisions}
              \cup {<<Cmd("Prepare", "t1", "Commit"), Cmd("LocalPrepared", "t2", "Commit")>>}}

apply(v, r) ==
    /\ Len(outbox[v]) + Len(r.out) <= MaxOut
    /\ Len(events[v]) + Len(r.events) <= MaxOut
    /\ r.beat => beats[v] < MaxForeign
    /\ store' = [store EXCEPT ![v] = r.db]
    /\ outbox' = [outbox EXCEPT ![v] = @ \o r.out]
    /\ events' = [events EXCEPT ![v] = @ \o r.events]
    /\ beats' = [beats EXCEPT ![v] = IF r.beat THEN @ + 1 ELSE @]
    /\ returned' = [returned EXCEPT ![v] = r.result]
    /\ UNCHANGED gossip

NewTransaction(v, ids) ==
    \E t \in ids \ DOMAIN store[v].executed, d \in Decisions :
        \E tx \in TxShapes[t] :
            /\ store' = [store EXCEPT ![v] = insert_transaction(@, t, tx, d)]
            /\ UNCHANGED <<outbox, events, beats, returned, gossip>>

LocalProposal(v, blocks, max) ==
    \E from \in Range(get_local_committee(v)) \ {v} :
        \E block \in blocks :
            /\ ~block_exists(store[v], block.id)
            /\ Cardinality(store[v].blocks) <= max
            /\ apply(v, handle(store[v], v, from, block))

RejectedProposal(v) ==
    \E from \in {"v3", "v2"} :
        \E block \in BadBlocks :
            /\ handle(store[v], v, from, block).result # "Ok"
            /\ apply(v, handle(store[v], v, from, block))

ForeignProposal(v) ==
    \E from \in Addrs \ Range(get_local_committee(v)) :
        \E block \in ForeignBlocks(ShardOfAddr(from)) :
            apply(v, handle(store[v], v, from, block))

\* the transactions a block waited for have arrived: the block is processed and
\* leaves the awaiting-transactions index
Reprocess(v) ==
    \E m \in store[v].missing :
        /\ m.transactions \subseteq DOMAIN store[v].executed
        /\ LET r == reprocess_block(store[v], v, m.block_id) IN
           apply(v, no_beat([r EXCEPT !.db.missing = @ \ {m}]))

InitWith(db1) ==
    /\ store = [v \in Validators |-> IF v = "v1" THEN db1 ELSE InitStore(v)]
    /\ outbox = [v \in Validators |-> <<>>]
    /\ events = [v \in Validators |-> <<>>]
    /\ beats = [v \in Validators |-> 0]
    /\ returned = [v \in Validators |-> "NoCall"]
    /\ gossip = GossipStart

(***************************************************************************)
(* Spec: validator v1 of committee A holds the cross-shard transaction t1  *)
(* in its pool; the local leader's blocks carry any command for t1, on the *)
(* tip of the chain, and the committees of shards B and C send proposals.  *)
(* After a block that skips the tip the next blocks form no three-chain.   *)
(***************************************************************************)
Tips(db) == {b \in db.blocks : \A c \in db.blocks : c.height <= b.height}

PoolCmdLists == {<<>>} \cup {<<c>> : c \in CmdsOf("t1")}

\* on a tip: a block with any command list, or an empty block that skips the tip
\* (its parent is the tip's parent)
PoolBlocks(db) ==
    UNION {{Block(j.id, QcOf(j), j.height + 1, c) : c \in PoolCmdLists}
           \cup {Block(j.parent, QcOf(j), j.height + 1, <<>>)} : j \in Tips(db)}

Init ==
    \E d1 \in Decisions :
        InitWith(insert_transaction(InitStore("v1"), "t1",
                                    Transaction({"s1", "f1", "f2"}, {}, {}), d1))

Next ==
    \/ LocalProposal("v1", PoolBlocks(store["v1"]), MaxBlocks)
    \/ ForeignProposal("v1")

Spec == Init /\ [][Next]_vars

(***************************************************************************)
(* SpecCatchUp: validator v1 holds t1 in its pool; the blocks extend a tip *)
(* and are justified by any stored block, so that some form no three-chain *)
(* and are executed later, in the range of a descendant; a block is empty  *)
(* or accepts t1.                                                          *)
(***************************************************************************)
CatchUpCmdLists == {<<>>, <<Cmd("Accept", "t1", "Commit")>>}

CatchUpBlocks(db) ==
    UNION {UNION {{Block(p.id, QcOf(j), p.height + 1, c) : c \in CatchUpCmdLists} :
                  p \in Tips(db)} : j \in db.blocks}

NextCatchUp == LocalProposal("v1", CatchUpBlocks(store["v1"]), MaxChain)

SpecCatchUp == Init /\ [][NextCatchUp]_vars

(***************************************************************************)
(* SpecChain: validator v1 receives empty blocks of any shape over the     *)
(* blocks it stores: forks, stale heights, a justify that is not the       *)
(* parent, parents it does not know.  SpecValidation: fewer blocks, and    *)
(* proposals that fail validation and foreign proposals among them.        *)
(***************************************************************************)
ShapedBlocks(db, cmds) ==
    UNION {UNION {{Block(p.id, QcOf(j), p.height + 1, c) : c \in cmds} :
                  p \in db.blocks} : j \in db.blocks}
    \cup UNION {{Block(UnknownId, QcOf(j), j.height + 1, c) : c \in cmds} :
                j \in db.blocks}

InitChain == InitWith(InitStore("v1"))

NextChain == LocalProposal("v1", ShapedBlocks(store["v1"], {<<>>}), MaxChain)

SpecChain == InitChain /\ [][NextChain]_vars

NextValidation ==
    \/ LocalProposal("v1", ShapedBlocks(store["v1"], {<<>>}), MaxBlocks)
    \/ RejectedProposal("v1")
    \/ ForeignProposal("v1")

SpecValidation == InitChain /\ [][NextValidation]_vars

(***************************************************************************)
(* SpecCrash: validator v1 holds t1 in its pool and receives blocks that   *)
(* are justified by a tip, on the tip or on a parent it does not know, and *)
(* are empty or prepare t1.  The node may stop after the write transaction *)
(* of process_block has committed and before the vote is sent; it restarts *)
(* with its store, and the leader delivers the LastVoted block again.      *)
(***************************************************************************)
CrashCmdLists == {<<>>, <<Cmd("Prepare", "t1", "Commit")>>}

CrashBlocks(db) ==
    UNION {{Block(p, QcOf(j), j.height + 1, c) :
                p \in {j.id, UnknownId}, c \in CrashCmdLists} : j \in Tips(db)}

\* the node stops between with_write_tx and send_vote_to_leader
CrashBeforeVote(v) ==
    \E from \in Range(get_local_committee(v)) \ {v} :
        \E block \in CrashBlocks(store[v]) :
            /\ ~block_exists(store[v], block.id)
            /\ Cardinality(store[v].blocks) <= MaxBlocks
            /\ LET r == handle(store[v], v, from, block) IN
               /\ \E i \in DOMAIN r.out : r.out[i].type = "Vote"
               /\ apply(v, [r EXCEPT !.out = <<>>, !.result = "Crashed"])

\* the leader delivers the LastVoted block once more
Redelivery(v) ==
    \E from \in Range(get_local_committee(v)) \ {v} :
        \E block \in store[v].blocks :
            /\ store[v].last_voted = Some(as_marker(block))
            /\ apply(v, handle(store[v], v, from, block))

NextCrash ==
    \/ LocalProposal("v1", CrashBlocks(store["v1"]), MaxBlocks)
    \/ CrashBeforeVote("v1")
    \/ Redelivery("v1")

SpecCrash == Init /\ [][NextCrash]_vars

(***************************************************************************)
(* SpecMempool: blocks justified by a tip, on any stored parent, which may *)
(* carry a Prepare for transaction t1; t1 may reach the mempool after the  *)
(* block that names it, and the block is then reprocessed.                 *)
(***************************************************************************)
MempoolCmdLists == {<<>>, <<Cmd("Prepare", "t1", "Commit")>>}

MempoolBlocks(db) ==
    UNION {UNION {{Block(p.id, QcOf(j), p.height + 1, c) : c \in MempoolCmdLists} :
                  p \in db.blocks} : j \in Tips(db)}

NextMempool ==
    \/ NewTransaction("v1", {"t1"})
    \/ LocalProposal("v1", MempoolBlocks(store["v1"]), MaxBlocks)
    \/ Reprocess("v1")

SpecMempool == InitChain /\ [][NextMempool]_vars

(***************************************************************************)
(* SpecLocks: validator v1 holds two single-shard transactions whose       *)
(* inputs overlap on substate s1; the leader's blocks, each on the tip,    *)
(* carry Prepare and Accept commands for them.                             *)
(***************************************************************************)
LockCmdLists ==
    {<<>>}
    \cup {<<Cmd(k, t, d)>> : k \in {"Prepare", "Accept"}, t \in TxIds, d \in Decisions}
    \cup {<<Cmd("Prepare", "t1", "Commit"), Cmd("Prepare", "t2", "Commit")>>,
          <<Cmd("Prepare", "t2", "Commit"), Cmd("Prepare", "t1", "Commit")>>}

LockBlocks(db) ==
    UNION {{Block(j.id, QcOf(j), j.height + 1, c) : c \in LockCmdLists} : j \in Tips(db)}

InitLocks ==
    \E d1 \in Decisions, d2 \in Decisions, tx2 \in TxShapes["t2"] :
        InitWith(insert_transaction(
                     insert_transaction(InitStore("v1"), "t1",
                                        Transaction({"s1"}, {}, {}), d1),
                     "t2", tx2, d2))

NextLocks == LocalProposal("v1", LockBlocks(store["v1"]), MaxBlocks)

SpecLocks == InitLocks /\ [][NextLocks]_vars

(***************************************************************************)
(* SpecNet: the committees of shards A, B and C, with their leaders v1, v2 *)
(* and v4, run the cross-shard transaction t1.  A leader proposes, on its  *)
(* tip and once the tip has its votes, the next command of a ready pool    *)
(* record; it processes its own proposal, and a proposal that carries a    *)
(* LocalPrepared reaches the other committees at any later time, any       *)
(* number of times.                                                        *)
(***************************************************************************)
\* the command a leader proposes for a pool record that is ready
ReadyCommands(rec, t) ==
    CASE rec.stage = "New" -> {Cmd("Prepare", t, rec.original_decision)}
      [] rec.stage = "Prepared" ->
            {Cmd("LocalPrepared", t, d) : d \in {rec.original_decision} \cup rec.changed_decision}
      [] rec.stage \in {"AllPrepared", "SomePrepared"} ->
            {Cmd("Accept", t, final_decision(rec))}
      [] OTHER -> {}

VotesOf(v) ==
    {outbox[v][i].block_id : i \in {k \in DOMAIN outbox[v] : outbox[v][k].type = "Vote"}}

Propose(v) ==
    \E tip \in Tips(store[v]) :
        /\ tip = GenesisBlock \/ tip.id \in VotesOf(v)
        /\ Cardinality(store[v].blocks) <= MaxBlocks
        /\ \E cmds \in UNION {{<<c>> : c \in ReadyCommands(store[v].pool[t], t)} :
                                          t \in {x \in DOMAIN store[v].pool :
                                                    store[v].pool[x].is_ready}} :
               apply(v, handle(store[v], v, v, Block(tip.id, QcOf(tip), tip.height + 1, cmds)))

Gossip(v) ==
    \E from \in Validators \ {v} :
        \E block \in {b \in store[from].blocks :
                          \E i \in DOMAIN b.commands : b.commands[i].kind = "LocalPrepared"} :
            apply(v, handle(store[v], v, from, block))

InitNet ==
    /\ \E d \in [Validators -> Decisions] :
           store = [v \in Validators |->
                       insert_transaction(InitStore(v), "t1",
                                          Transaction({"s1", "f1", "f2"}, {}, {}), d[v])]
    /\ outbox = [v \in Validators |-> <<>>]
    /\ events = [v \in Validators |-> <<>>]
    /\ beats = [v \in Validators |-> 0]
    /\ returned = [v \in Validators |-> "NoCall"]
    /\ gossip = GossipStart

NextNet ==
    \/ \E v \in Validators : Propose(v)
    \/ \E v \in Validators : Gossip(v)

SpecNet == InitNet /\ [][NextNet]_vars

(***************************************************************************)
(* SpecHappy: validator v1 holds the single-shard transaction t1; the      *)
(* leader's blocks, each on the tip and justified by it, carry any command *)
(* for t1.                                                                 *)
(***************************************************************************)
HappyBlocks(db) ==
    UNION {{Block(j.id, QcOf(j), j.height + 1, c) : c \in PoolCmdLists} : j \in Tips(db)}

InitHappy ==
    \E d1 \in Decisions :
        InitWith(insert_transaction(InitStore("v1"), "t1", Transaction({"s1"}, {}, {}), d1))

NextHappy == LocalProposal("v1", HappyBlocks(store["v1"]), MaxChain)

SpecHappy == InitHappy /\ [][NextHappy]_vars

(***************************************************************************)
(* SpecLive: the network of SpecNet as the test network runs it.  Every    *)
(* committee's validator holds t1; a proposal that carries a LocalPrepared *)
(* is broadcast to the other committees and delivered to each once; the    *)
(* network worker forwards every message it receives and every leader      *)
(* proposes while a record of its pool is ready, so a proposal or a        *)
(* delivery that stays possible is eventually taken (weak fairness).       *)
(* The weak fairness of Propose is written out, []<>~E \/ []<><<A>>_vars,  *)
(* with the enabling condition E of the action given as ProposeEnabled.    *)
(***************************************************************************)
\* the proposals of other committees that carry a LocalPrepared and have not
\* reached validator v: its record has no evidence of their shard
Undelivered(v) ==
    {<<from, b>> \in Validators \X UNION {store[w].blocks : w \in Validators} :
        /\ from # v
        /\ b \in store[from].blocks
        /\ \E i \in DOMAIN b.commands : b.commands[i].kind = "LocalPrepared"
        /\ pool_exists(store[v], b.commands[1].tx)
        /\ store[v].pool[b.commands[1].tx].evidence[ShardOfAddr(from)] = {}}

Deliver(v) ==
    \E m \in Undelivered(v) : apply(v, handle(store[v], v, m[1], m[2]))

NextLive ==
    \/ \E v \in Validators : Propose(v)
    \/ \E v \in Validators : Deliver(v)

\* the leader of v's committee has a block to propose: its tip is voted, and a
\* record of its pool is ready with a command for its stage
ProposeEnabled(v) ==
    \E tip \in Tips(store[v]) :
        /\ tip = GenesisBlock \/ tip.id \in VotesOf(v)
        /\ Cardinality(store[v].blocks) <= MaxBlocks
        /\ \E t \in DOMAIN store[v].pool :
               store[v].pool[t].is_ready /\ ReadyCommands(store[v].pool[t], t) # {}

Fairness ==
    \A v \in Validators :
        /\ WF_vars(Deliver(v))
        /\ []<>(~ProposeEnabled(v)) \/ []<><<Propose(v)>>_vars

SpecLive == InitNet /\ [][NextLive]_vars /\ Fairness

(***************************************************************************)
(* SpecForeign: validator v1 holds t1 and t2, both with inputs in shards A *)
(* and B.  The local leader's blocks carry a command for t1 or none; they  *)
(* are justified by the tip and their parent is the tip or the tip's       *)
(* parent.  A block after such a fork forms no three-chain, so that its    *)
(* Accept is not executed at once.  The proposals of shard B's committee   *)
(* carry a LocalPrepared for t1, alone or followed by one for t2, and      *)
(* arrive at any time: before t1 is prepared, after it is Complete, after  *)
(* its record is removed.                                                  *)
(***************************************************************************)
CommitCmdLists ==
    {<<>>} \cup {<<Cmd(k, "t1", "Commit")>> : k \in {"Prepare", "LocalPrepared", "Accept"}}

ForkedBlocks(db) ==
    UNION {{Block(p, QcOf(j), j.height + 1, c) : p \in {j.id, j.parent}, c \in CommitCmdLists} :
              j \in Tips(db)}

PairedForeignBlocks(shard) ==
    {Block(<<"foreign", shard>>, ForeignQc(shard), 2, c) :
        c \in {<<Cmd("LocalPrepared", "t1", d)>> : d \in Decisions}
              \cup {<<Cmd("LocalPrepared", "t1", d), Cmd("LocalPrepared", "t2", d)>> :
                       d \in Decisions}}

PairedForeignProposal(v) ==
    \E block \in PairedForeignBlocks("B") :
        apply(v, handle(store[v], v, "v2", block))

InitForeign ==
    \E d2 \in Decisions :
        InitWith(insert_transaction(
                     insert_transaction(InitStore("v1"), "t1",
                                        Transaction({"s1", "f1"}, {}, {}), "Commit"),
                     "t2", Transaction({"s2", "f1"}, {}, {}), d2))

NextForeign ==
    \/ LocalProposal("v1", ForkedBlocks(store["v1"]), MaxBlocks)
    \/ PairedForeignProposal("v1")

SpecForeign == InitForeign /\ [][NextForeign]_vars

(***************************************************************************)
(* SpecBeat: validator v1 holds t1, the local leader's blocks are on the   *)
(* tip, and the store may fail.  A proposal of shard B's committee is      *)
(* valid or fails validation, and a store call of its write transaction    *)
(* may return an error.                                                    *)
(***************************************************************************)
RejectedBlocks == {b \in BadBlocks : validate_proposed_block(b) # "Ok"}

ForeignDelivery(v, from) ==
    \E block \in ForeignBlocks(ShardOfAddr(from)) \cup RejectedBlocks,
       storage_fails \in BOOLEAN :
        apply(v, handle_foreign_proposal_tx(store[v], from, block, storage_fails))

NextBeat ==
    \/ LocalProposal("v1", HappyBlocks(store["v1"]), MaxBlocks - 1)
    \/ ForeignDelivery("v1", "v2")

SpecBeat == Init /\ [][NextBeat]_vars

(***************************************************************************)
(* SpecGossip: the requests and events the gossip services handle, in any  *)
(* order, for any answers of the epoch manager; any overlay call may fail. *)
(* op is the operation of the step and calls are its overlay calls.        *)
(***************************************************************************)
GossipStep(op, r) ==
    /\ gossip' = [r.g EXCEPT !.op = op, !.result = r.result]
    /\ UNCHANGED <<store, outbox, events, beats, returned>>

Starting == [gossip EXCEPT !.calls = <<>>]

Subscribe ==
    \E e \in Epochs, fails \in SUBSET {"subscribe_topic", "unsubscribe_topic"} :
        GossipStep(<<"subscribe", e>>, subscribe(Starting, e, fails))

Unsubscribe ==
    \E fails \in SUBSET {"unsubscribe_topic"} :
        GossipStep(<<"unsubscribe">>, unsubscribe(Starting, fails))

\* run: EpochManagerEvent::EpochChanged(epoch) subscribes if the validator is registered
EpochChanged ==
    \E e \in Epochs, fails \in SUBSET {"subscribe_topic", "unsubscribe_topic"} :
        LET g == [Starting EXCEPT !.current_epoch = e] IN
        GossipStep(<<"epoch_changed", e>>,
                   IF g.committees[e].registered THEN subscribe(g, e, fails)
                   ELSE [g |-> g, result |-> "Ok"])

Multicast ==
    \E sg \in ShardGroups, m \in HotstuffMessages, fails \in SUBSET {"publish_gossip"} :
        GossipStep(<<"multicast", sg, m>>, multicast(Starting, sg, m, fails))

MempoolSubscribe ==
    \E e \in Epochs, fails \in SUBSET {"subscribe_topic", "unsubscribe_topic"} :
        GossipStep(<<"mempool_subscribe", e>>, mempool_subscribe(Starting, e, fails))

MempoolUnsubscribe ==
    \E fails \in SUBSET {"unsubscribe_topic"} :
        GossipStep(<<"mempool_unsubscribe">>, mempool_unsubscribe(Starting, fails))

InitGossip ==
    /\ store = [v \in Validators |-> InitStore(v)]
    /\ outbox = [v \in Validators |-> <<>>]
    /\ events = [v \in Validators |-> <<>>]
    /\ beats = [v \in Validators |-> 0]
    /\ returned = [v \in Validators |-> "NoCall"]
    /\ \E committees \in [Epochs -> CommitteeInfos \cup {NotRegistered}] :
           gossip = GossipInit(committees)

NextGossip ==
    \/ Subscribe
    \/ Unsubscribe
    \/ EpochChanged
    \/ Multicast
    \/ MempoolSubscribe
    \/ MempoolUnsubscribe

SpecGossip == InitGossip /\ [][NextGossip]_vars

(***************************************************************************)
(* SpecRun: the run loop of the consensus gossip service.  It takes        *)
(* multicast requests, inbound gossip messages of any peer, well-formed or *)
(* not, and epoch changes, until an error of the events arm or the closing *)
(* of its channels ends it.                                                *)
(***************************************************************************)
MaxInbound == 2

Peers == {"p1", "p2"}

\* payloads of inbound gossip messages: encoded messages, an empty payload, a
\* wrong length prefix, bytes that are no message
InboundData ==
    {encode_to(m) : m \in HotstuffMessages} \cup {<<>>, <<5, "Vote">>, <<1, "junk">>}

RunRequest ==
    /\ gossip.running
    /\ \E sg \in ShardGroups, m \in {<<"Vote">>}, fails \in SUBSET {"publish_gossip"} :
           GossipStep(<<"multicast", sg, m>>, multicast(Starting, sg, m, fails))

RunGossipMessage ==
    /\ gossip.running
    /\ Len(gossip.consensus_channel) < MaxInbound
    /\ \E from \in Peers, data \in InboundData, send_fails \in BOOLEAN :
           GossipStep(<<"gossip_message", from, data>>,
                      run_gossip_message(Starting, from, data, send_fails))

RunEpochChanged ==
    /\ gossip.running
    /\ \E e \in Epochs, fails \in SUBSET {"subscribe_topic", "unsubscribe_topic"},
          epoch_manager_fails \in BOOLEAN :
           GossipStep(<<"epoch_changed", e>>,
                      run_epoch_changed(Starting, e, fails, epoch_manager_fails))

RunShutdown ==
    /\ gossip.running
    /\ \E fails \in SUBSET {"unsubscribe_topic"} :
           GossipStep(<<"shutdown">>, run_shutdown(Starting, fails))

NextRun ==
    \/ RunRequest
    \/ RunGossipMessage
    \/ RunEpochChanged
    \/ RunShutdown

\* the epoch manager answers for the first epoch, and alike for all later ones
InitRun ==
    /\ store = [v \in Validators |-> InitStore(v)]
    /\ outbox = [v \in Validators |-> <<>>]
    /\ events = [v \in Validators |-> <<>>]
    /\ beats = [v \in Validators |-> 0]
    /\ returned = [v \in Validators |-> "NoCall"]
    /\ \E first \in CommitteeInfos \cup {NotRegistered},
          later \in CommitteeInfos \cup {NotRegistered} :
           gossip = GossipInit([e \in Epochs |-> IF e = 1 THEN first ELSE later])

SpecRun == InitRun /\ [][NextRun]_vars

(***************************************************************************)
(* SpecExecutor: the mempool executes transactions, for any answer of the  *)
(* substate resolver and any outcome of the execution.                     *)
(***************************************************************************)
Substate(id, version) == [id |-> id, substate |-> [version |-> version]]

\* the inputs the resolver returns, in its order
ResolvedInputs ==
    {<<>>, <<Substate("a", 0)>>, <<Substate("b", 0)>>,
     <<Substate("a", 0), Substate("b", 0)>>, <<Substate("b", 0), Substate("a", 0)>>}

\* the substates a diff may down: inputs, an input at another version, a
\* substate that is no input
Downs == {<<"a", 0>>, <<"a", 1>>, <<"b", 0>>, <<"c", 0>>}

Returned(result) == [panicked |-> FALSE, returned |-> result]

\* the blocking worker panics before executor.execute returns
Panicked == [panicked |-> TRUE, returned |-> Err("none")]

\* what executor.execute returns for a transaction, or that the worker panics
Executions(t) ==
    {Returned(Ok([transaction |-> t, finalize |-> [accept |-> Some([down |-> d])],
                  resolved_inputs |-> <<>>])) : d \in SUBSET Downs}
    \cup {Returned(Ok([transaction |-> t, finalize |-> [accept |-> None],
                       resolved_inputs |-> <<>>])),
          Returned(Err("TransactionProcessorError")), Panicked}

ExecuteTransaction ==
    \E t \in {"t1"} :
        \E virtual_substates \in {Ok({})} \cup {Err(e) : e \in ResolverErrors},
           resolved \in {Ok(i) : i \in ResolvedInputs}
                        \cup {Err(e) : e \in ResolverErrors},
           execution \in Executions(t) :
            GossipStep(<<"execute_transaction", t, virtual_substates, resolved, execution>>,
                       execute_transaction(Starting, virtual_substates, resolved, execution))

NextExecutor == ExecuteTransaction

SpecExecutor == InitWith(InitStore("v1")) /\ [][NextExecutor]_vars

(***************************************************************************)
(* SpecForward: the mempool forwards transactions to the replicas of the   *)
(* local committee and of the foreign committees, for any shards, any      *)
(* excluded bucket, any number of committees and any call that fails.  The *)
(* validator is in the same committee in every epoch, or in none.          *)
(***************************************************************************)
DanMessages == {"NewTransaction"}

ForwardToLocal ==
    \E e \in Epochs, m \in DanMessages, fails \in SUBSET {"publish_message"} :
        GossipStep(<<"forward_to_local_replicas", e, m>>,
                   forward_to_local_replicas(Starting, e, m, fails))

ForwardToForeign ==
    \E e \in Epochs, shards \in SUBSET GossipShardIds, m \in DanMessages,
       n \in CommitteeCounts, exclude_bucket \in {None, Some(1), Some(2)} :
        \E order \in BucketOrders, fail_at \in FailAt :
            GossipStep(<<"forward_to_foreign_replicas", e, shards, m, exclude_bucket, n>>,
                       forward_to_foreign_replicas(Starting, e, shards, m, exclude_bucket,
                                                   n, order, fail_at))

NextForward ==
    \/ ForwardToLocal
    \/ ForwardToForeign

InitForward ==
    /\ store = [v \in Validators |-> InitStore(v)]
    /\ outbox = [v \in Validators |-> <<>>]
    /\ events = [v \in Validators |-> <<>>]
    /\ beats = [v \in Validators |-> 0]
    /\ returned = [v \in Validators |-> "NoCall"]
    /\ \E c \in CommitteeInfos \cup {NotRegistered} :
           gossip = GossipInit([e \in Epochs |-> c])

SpecForward == InitForward /\ [][NextForward]_vars

(***************************************************************************)
(* Properties.  Db is the store of validator v1, Votes the blocks v1 voted *)
(* for and Executed the blocks whose BlockCommitted event v1 published.    *)
(***************************************************************************)
Db == store["v1"]

Votes == {outbox["v1"][i].block_id : i \in {k \in DOMAIN outbox["v1"] : outbox["v1"][k].type = "Vote"}}

Executed == Range(events["v1"])

IsThreeChain(b, b1, b2) ==
    /\ b1.parent = b.id
    /\ b2.parent = b1.id
    /\ b1.justify.block_id = b.id
    /\ b2.justify.block_id = b1.id

\* the chain b1..b4 over genesis: each block's parent is the previous block and
\* each block's justify is the QC of the previous block
B1 == Block(GenesisId, GenesisQc, 1, <<>>)

B2 == Block(B1.id, QcOf(B1), 2, <<>>)

B3 == Block(B2.id, QcOf(B2), 3, <<>>)

B4 == Block(B3.id, QcOf(B3), 4, <<>>)

\* C3: every block that was executed is the head b of a three-chain b, b', b''
\* of stored blocks, or an ancestor of b.
C3_CommittedByThreeChain ==
    \A e \in Executed :
        \E b \in Db.blocks, b1 \in Db.blocks, b2 \in Db.blocks :
            /\ IsThreeChain(b, b1, b2)
            /\ (e = b.id \/ is_ancestor(Db, b.parent, e))

\* C10: once the validator has processed exactly the chain b1..b4, b1 is the
\* only executed block and LastExecuted is at the height of b1.
C10_FourChainCommitsB1 ==
    Db.blocks = {GenesisBlock, B1, B2, B3, B4}
        => /\ events["v1"] = <<B1.id>>
           /\ Db.last_executed = as_marker(B1)

\* the safe-node predicate: the liveness rule or the safety rule
SafeNode(db, block) ==
    \/ block.justify.block_height > db.locked_block.height
    \/ extends(db, block, db.locked_block.block_id)

VoteHeights == [i \in DOMAIN outbox["v1"] |-> get_block(Db, outbox["v1"][i].block_id).height]

\* the votes sent so far are for strictly increasing heights, none above LastVoted
VotesIncrease ==
    /\ \A i \in DOMAIN outbox["v1"], j \in DOMAIN outbox["v1"] :
           (i < j /\ outbox["v1"][i].type = "Vote" /\ outbox["v1"][j].type = "Vote")
               => VoteHeights[i] < VoteHeights[j]
    /\ \A i \in DOMAIN outbox["v1"] :
           outbox["v1"][i].type = "Vote"
               => (Db.last_voted # None /\ VoteHeights[i] <= unwrap(Db.last_voted).height)

\* a vote sent in this step is for a block above the LastVoted height of before
NewVoteAboveLastVoted ==
    \A i \in DOMAIN outbox'["v1"] \ DOMAIN outbox["v1"] :
        (outbox'["v1"][i].type = "Vote" /\ Db.last_voted # None)
            => get_block(store'["v1"], outbox'["v1"][i].block_id).height
                   > unwrap(Db.last_voted).height

\* C2: every vote is for a block strictly above the LastVoted height stored when
\* the vote is decided, so no two votes are for blocks of the same height.
C2_VoteAboveLastVoted == []VotesIncrease /\ [][NewVoteAboveLastVoted]_vars

\* C2 case: two votes were sent, and a stored block at or below the LastVoted
\* height was processed without a vote
C2_Witness ==
    /\ Cardinality(Votes) >= 2
    /\ \E block \in Db.blocks \ {GenesisBlock} :
           /\ block.id \notin Votes
           /\ block.height <= unwrap(Db.last_voted).height
           /\ \A m \in Db.missing : m.block_id # block.id

\* proposals whose justify names a block that is not stored
UnknownJustifyBlocks(db) ==
    {Block(p.id, [block_id |-> UnknownId, block_height |-> p.height], p.height + 1, <<>>) :
        p \in db.blocks}

\* C8: the justify block of every stored block is stored (or is genesis); a local
\* proposal with an unknown justify block is not inserted; a foreign proposal
\* inserts no block.
C8_JustifyBlockStored ==
    /\ \A b \in Db.blocks :
           b.justify.block_id # GenesisId => block_exists(Db, b.justify.block_id)
    /\ \A block \in UnknownJustifyBlocks(Db) :
           handle(Db, "v1", "v3", block).db = Db
    /\ \A from \in Addrs \ Range(get_local_committee("v1")) :
           \A block \in ForeignBlocks(ShardOfAddr(from)) \cup ShapedBlocks(Db, {<<>>}) :
               handle(Db, "v1", from, block).db.blocks = Db.blocks

\* C8 case: a block justified by a non-genesis block is stored, a proposal with an
\* unknown justify block was just rejected and a foreign proposal was handled
C8_Witness ==
    /\ \E b \in Db.blocks : b.justify.block_id # GenesisId
    /\ returned["v1"] = "JustifyBlockNotFound"
    /\ beats["v1"] > 0

HeldBy(db, t) == {s \in DOMAIN db.locks : t \in db.locks[s].w \cup db.locks[s].r}

\* C4: a substate has at most one Write holder, and while it is Write-locked no
\* other transaction holds a Read or Write lock on it.
C4_LockExclusivity ==
    \A s \in DOMAIN Db.locks :
        /\ Cardinality(Db.locks[s].w) <= 1
        /\ Db.locks[s].w # {} => Db.locks[s].r \subseteq Db.locks[s].w

\* C4 case: t1 took the Write lock on s1 again after an executed Accept had
\* released it from t2, which had been granted it by a Prepare(t2, Commit)
C4_Witness ==
    /\ Db.locks["s1"].w = {"t1"}
    /\ ~pool_exists(Db, "t2")
    /\ "s1" \in Db.executed["t2"].filled_inputs
    /\ \E b \in Db.blocks : b.id \in Votes /\ b.commands = <<Cmd("Prepare", "t2", "Commit")>>
    /\ \E b \in Db.blocks : b.id \in Votes /\ b.commands = <<Cmd("Prepare", "t1", "Commit")>>

\* C7: a transaction whose Prepare did not pass (its record is still New, as
\* after lock_inputs returned false) holds no lock.
C7_FailedLockHoldsNothing ==
    \A t \in DOMAIN Db.pool : Db.pool[t].stage = "New" => HeldBy(Db, t) = {}

StagePaths ==
    {<<"New", "Prepared">>, <<"New", "LocalPrepared">>, <<"New", "AllPrepared">>,
     <<"New", "SomePrepared">>, <<"New", "Complete">>,
     <<"Prepared", "LocalPrepared">>, <<"Prepared", "AllPrepared">>,
     <<"Prepared", "SomePrepared">>, <<"Prepared", "Complete">>,
     <<"LocalPrepared", "AllPrepared">>, <<"LocalPrepared", "SomePrepared">>,
     <<"LocalPrepared", "Complete">>,
     <<"AllPrepared", "Complete">>, <<"SomePrepared", "Complete">>}

\* C5: the stage of a pool record changes only along the edges New -> Prepared ->
\* LocalPrepared -> {AllPrepared, SomePrepared} -> Complete (one step of the
\* validator may take several edges in a row); Complete never changes.
C5_StageEdges ==
    [][\A t \in DOMAIN Db.pool \cap DOMAIN store'["v1"].pool :
          Db.pool[t].stage # store'["v1"].pool[t].stage
              => <<Db.pool[t].stage, store'["v1"].pool[t].stage>> \in StagePaths]_vars

\* the Accept commands of the blocks whose execution was persisted in this step
AcceptedNow ==
    IF returned'["v1"] # "Ok" THEN {}
    ELSE UNION {{c \in Range(get_block(store'["v1"], events'["v1"][i]).commands) :
                    c.kind = "Accept"} :
                i \in DOMAIN events'["v1"] \ DOMAIN events["v1"]}

\* C6: when a block with Accept(t, d) is committed, then at the end of that write
\* transaction t holds no lock, t's pool record is removed, and t's diff was
\* applied if and only if d is Commit.
C6_AcceptReleases ==
    [][\A c \in AcceptedNow :
          /\ HeldBy(store'["v1"], c.tx) = {}
          /\ ~pool_exists(store'["v1"], c.tx)
          /\ (store'["v1"].applied[c.tx] = Db.applied[c.tx] + 1 <=> c.decision = "Commit")
          /\ (store'["v1"].applied[c.tx] = Db.applied[c.tx] <=> c.decision = "Abort")]_vars

\* C6 case: t1 took its Write lock at a Prepare(Commit) that was voted for, and a
\* block with Accept(t1, Abort) was executed afterwards
C6_Witness ==
    /\ ~pool_exists(Db, "t1")
    /\ Db.executed["t1"].final_decision = Some("Abort")
    /\ HeldBy(Db, "t1") = {}
    /\ \E b \in Db.blocks : b.id \in Votes /\ b.commands = <<Cmd("Prepare", "t1", "Commit")>>
    /\ \E b \in Db.blocks : b.id \in Executed /\ b.commands = <<Cmd("Accept", "t1", "Abort")>>

Finalized(v, t) == t \in DOMAIN store[v].executed /\ store[v].executed[t].final_decision # None

\* C1: no two committees finalize transaction t1 with different decisions, and
\* if a committee decided Abort (when it executed t1, or when it finalized it) no
\* committee applies the substate diff of t1.
C1_DecisionConsistency ==
    \A v \in Validators, w \in Validators :
        /\ (Finalized(v, "t1") /\ Finalized(w, "t1"))
               => store[v].executed["t1"].final_decision = store[w].executed["t1"].final_decision
        /\ (\/ store[v].executed["t1"].decision = "Abort"
            \/ store[v].executed["t1"].final_decision = Some("Abort"))
               => store[w].applied["t1"] = 0

\* C1 case: committee A prepared t1 with Commit, committee B with Abort, and all
\* three committees finalized t1
C1_Witness ==
    /\ \A v \in Validators : Finalized(v, "t1")
    /\ store["v1"].executed["t1"].decision = "Commit"
    /\ store["v2"].executed["t1"].decision = "Abort"

\* the local blocks stored, and processed without an error, in this step
ProcessedNow ==
    IF returned'["v1"] # "Ok" THEN {}
    ELSE {b \in store'["v1"].blocks \ Db.blocks :
             \A m \in store'["v1"].missing : m.block_id # b.id}

\* b' = b*.justify.block.justify.block, as a set: empty when it is not stored
PrecommitNodes(db, block) ==
    IF ~block_exists(db, block.justify.block_id) THEN {}
    ELSE {b \in db.blocks : b.id = get_block(db, block.justify.block_id).justify.block_id}

LockedRule ==
    \A block \in ProcessedNow :
        \A b1 \in PrecommitNodes(store'["v1"], block) :
            store'["v1"].locked_block =
                IF b1.height > Db.locked_block.height THEN as_marker(b1)
                ELSE Db.locked_block

LockedHeightGrows == store'["v1"].locked_block.height >= Db.locked_block.height

LockedAfterFourChain ==
    Db.blocks = {GenesisBlock, B1, B2, B3, B4} => Db.locked_block = as_marker(B2)

\* C11: a processed block b* whose b' = b*.justify.block.justify.block is stored sets
\* LockedBlock to b' if and only if b' is above the stored locked height and leaves
\* it unchanged otherwise; the locked height never decreases; after the chain
\* b1..b4 LockedBlock is b2.
C11_LockedBlockRule ==
    /\ [][LockedRule /\ LockedHeightGrows]_vars
    /\ []LockedAfterFourChain

\* the block on b3 that is justified by the genesis QC
StaleJustifyBlock == Block(B3.id, GenesisQc, 4, <<>>)

\* C11 case: b1, b2, b3 set LockedBlock to b1; the block on b3 whose b' is genesis
\* was then processed and left it unchanged
C11_Witness ==
    /\ Db.blocks = {GenesisBlock, B1, B2, B3, StaleJustifyBlock}
    /\ returned["v1"] = "Ok"
    /\ Db.last_executed = as_marker(StaleJustifyBlock)
    /\ Db.locked_block = as_marker(B1)

HighQcRule ==
    \A block \in ProcessedNow :
        store'["v1"].high_qc =
            IF block.justify.block_height > Db.high_qc.block_height THEN block.justify
            ELSE Db.high_qc

HighQcGrows == store'["v1"].high_qc.block_height >= Db.high_qc.block_height

HighQcAfterFourChain ==
    Db.blocks = {GenesisBlock, B1, B2, B3, B4} => Db.high_qc = B4.justify

\* C12: after a local block b* is processed, voted for or not, high_qc is the higher
\* of the stored high_qc and b*.justify; its height never decreases; after the
\* chain b1..b4 high_qc is b4.justify.
C12_HighQcIsHigher ==
    /\ [][HighQcRule /\ HighQcGrows]_vars
    /\ []HighQcAfterFourChain

\* the block at the height of b1 that is justified by the QC of b1
UnvotedBlock == Block(GenesisId, QcOf(B1), 1, <<>>)

\* C12 case: after b1 a block at the height of b1, justified by b1, was processed
\* without a vote and raised high_qc to the QC of b1
C12_Witness ==
    /\ Db.blocks = {GenesisBlock, B1, UnvotedBlock}
    /\ UnvotedBlock.id \notin Votes
    /\ returned["v1"] = "Ok"
    /\ Db.high_qc = QcOf(B1)

\* the happy path of t1: Prepare, LocalPrepared, Accept, each block on the previous
H1 == Block(GenesisId, GenesisQc, 1, <<Cmd("Prepare", "t1", "Commit")>>)

H2 == Block(H1.id, QcOf(H1), 2, <<Cmd("LocalPrepared", "t1", "Commit")>>)

H3 == Block(H2.id, QcOf(H2), 3, <<Cmd("Accept", "t1", "Commit")>>)

\* C13: single shard, t1 executed with Commit: when the validator has received b1 =
\* [Prepare], b2 = [LocalPrepared], b3 = [Accept], it has voted for the three; once
\* it has also received a block b4 justified by the QC of b3, t1 holds no lock and
\* has no pool record.
C13_HappyPath ==
    ({H1, H2, H3} \subseteq Db.blocks /\ Db.executed["t1"].decision = "Commit")
        => /\ {H1.id, H2.id, H3.id} \subseteq Votes
           /\ \A b4 \in Db.blocks :
                  b4.justify = QcOf(H3)
                      => HeldBy(Db, "t1") = {} /\ ~pool_exists(Db, "t1")

\* C13 case: b1, b2, b3 and an empty b4 on b3 were processed and t1 was committed
C13_Witness ==
    /\ Db.blocks = {GenesisBlock, H1, H2, H3, Block(H3.id, QcOf(H3), 4, <<>>)}
    /\ Db.executed["t1"].final_decision = Some("Commit")
    /\ Db.applied["t1"] = 1
    /\ returned["v1"] = "Ok"

\* the substates of its own shard the validator locks for Write for transaction t
WriteSet(db, t) == filter("A", db.executed[t].inputs \cup db.executed[t].filled_inputs)

NewVotes == {outbox'["v1"][i].block_id :
                i \in {k \in DOMAIN outbox'["v1"] \ DOMAIN outbox["v1"] :
                          outbox'["v1"][k].type = "Vote"}}

\* C14: both transactions are New, decided Commit and write substate s1; the block
\* [Prepare(a, Commit), Prepare(b, Commit)] is not voted for, a holds its locks and
\* is Prepared, b stays New with no lock and with its decisions as they were.
C14_ConflictAbstains ==
    [][\A a \in TxIds, b \in TxIds, block \in store'["v1"].blocks \ Db.blocks :
          (/\ a # b
           /\ block.commands = <<Cmd("Prepare", a, "Commit"), Cmd("Prepare", b, "Commit")>>
           /\ \A t \in {a, b} : /\ pool_exists(Db, t)
                                 /\ Db.pool[t].stage = "New"
                                 /\ Db.pool[t].original_decision = "Commit"
                                 /\ "s1" \in WriteSet(Db, t))
              => /\ block.id \notin NewVotes
                 /\ store'["v1"].pool[a].stage = "Prepared"
                 /\ \A s \in WriteSet(Db, a) : store'["v1"].locks[s].w = {a}
                 /\ store'["v1"].pool[b].stage = "New"
                 /\ store'["v1"].pool[b].original_decision = "Commit"
                 /\ store'["v1"].pool[b].changed_decision = None
                 /\ HeldBy(store'["v1"], b) = {}]_vars

ConflictBlock ==
    Block(GenesisId, GenesisQc, 1, <<Cmd("Prepare", "t1", "Commit"), Cmd("Prepare", "t2", "Commit")>>)

\* C14 case: the first block carried the two Prepare commands, t2 writes s1 too,
\* and the block was processed without a vote
C14_Witness ==
    /\ Db.blocks = {GenesisBlock, ConflictBlock}
    /\ "s1" \in Db.executed["t2"].filled_inputs
    /\ Db.pool["t1"].original_decision = "Commit"
    /\ Db.pool["t2"].original_decision = "Commit"
    /\ Db.locks["s1"].w = {"t1"}
    /\ Db.pool["t2"].stage = "New"
    /\ Votes = {}
    /\ returned["v1"] = "Ok"

\* C15: a record decided Commit whose decision a foreign LocalPrepared(t, Abort)
\* changed to Abort is, once its evidence covers all shards and it left
\* LocalPrepared, in SomePrepared and not in AllPrepared.
C15_ForeignAbortSomePrepared ==
    \A t \in DOMAIN Db.pool :
        (/\ Db.pool[t].original_decision = "Commit"
         /\ Db.pool[t].changed_decision = Some("Abort")
         /\ all_shards_complete(Db.pool[t]))
            => Db.pool[t].stage # "AllPrepared"

\* the proposals of a foreign committee that carry a LocalPrepared for t1
ForeignPrepared(shard) ==
    {b \in ForeignBlocks(shard) :
        \E i \in DOMAIN b.commands :
            b.commands[i].kind = "LocalPrepared" /\ b.commands[i].tx = "t1"}

\* the store after the proposals fb of shard B's and fc of shard C's committee, in
\* the order given by first
foreign_then(db, fb, fc, first) ==
    IF first = "B"
    THEN handle(handle(db, "v1", "v2", fb).db, "v1", "v4", fc).db
    ELSE handle(handle(db, "v1", "v4", fc).db, "v1", "v2", fb).db

\* the leader's next blocks for t1 on the tip: Prepare if the record is New, then
\* LocalPrepared, with the decision of the record; voted says whether the validator
\* voted for the block with LocalPrepared
local_prepared_then(db) ==
    LET d == db.pool["t1"].original_decision
        tip == CHOOSE j \in Tips(db) : TRUE
        prepare == Block(tip.id, QcOf(tip), tip.height + 1, <<Cmd("Prepare", "t1", d)>>)
        db1 == IF db.pool["t1"].stage = "New" THEN handle(db, "v1", "v3", prepare).db ELSE db
        tip1 == CHOOSE j \in Tips(db1) : TRUE
        r == handle(db1, "v1", "v3",
                    Block(tip1.id, QcOf(tip1), tip1.height + 1, <<Cmd("LocalPrepared", "t1", d)>>))
    IN  [db |-> r.db, voted |-> r.out # <<>>]

\* C16: the record of t1 is New or Prepared and has no foreign evidence.  If the
\* proposals of both foreign committees are handled first and the local
\* LocalPrepared command afterwards, the record ends ready in SomePrepared (its
\* decision was changed to Abort) or AllPrepared (it was not), and in the same
\* stage as when the LocalPrepared command is processed before the proposals.
C16_EvidenceBeforeLocalPrepared ==
    \A fb \in ForeignPrepared("B"), fc \in ForeignPrepared("C"), first \in {"B", "C"} :
        (/\ pool_exists(Db, "t1")
         /\ Db.pool["t1"].stage \in {"New", "Prepared"}
         /\ Db.pool["t1"].evidence["B"] = {} /\ Db.pool["t1"].evidence["C"] = {}
         /\ local_prepared_then(foreign_then(Db, fb, fc, first)).voted
         /\ local_prepared_then(Db).voted)
            => LET before == local_prepared_then(foreign_then(Db, fb, fc, first)).db.pool["t1"]
                   after == foreign_then(local_prepared_then(Db).db, fb, fc, first).pool["t1"]
               IN  /\ before.is_ready
                   /\ before.stage =
                          IF before.changed_decision = Some("Abort") THEN "SomePrepared"
                          ELSE "AllPrepared"
                   /\ before.stage = after.stage

ValidationErrors ==
    {"ProposingGenesisBlock", "NodeHashMismatch", "JustifyBlockNotFound", "JustifyBlockInvalid"}

\* local proposals whose justify block is not stored: empty, or naming a transaction
UnknownJustifyProposals(db) ==
    UNION {{Block(p.id, [block_id |-> UnknownId, block_height |-> p.height], p.height + 1, c) :
               c \in MempoolCmdLists} : p \in db.blocks}

Untouched(r, db) == r.db = db /\ r.out = <<>> /\ r.events = <<>>

\* C17: a local proposal whose justify block is not stored is answered with
\* JustifyBlockNotFound, and one that proposes genesis, has a wrong hash or a wrong
\* justify height with its error; in each case the store is as before (no block, no
\* QC, no marker, no pool record, no waiting entry) and nothing is sent.
C17_RejectedProposalNoChange ==
    /\ [](/\ \A block \in UnknownJustifyProposals(Db) :
               LET r == handle(Db, "v1", "v3", block) IN
               r.result = "JustifyBlockNotFound" /\ Untouched(r, Db)
          /\ \A block \in BadBlocks :
               LET r == handle(Db, "v1", "v3", block) IN
               r.result \in ValidationErrors /\ Untouched(r, Db))
    /\ [][returned'["v1"] \in ValidationErrors
              => UNCHANGED <<store, outbox, events, beats>>]_vars

\* C17 case: the validator has voted, and the proposal it handled last had a justify
\* block it does not store
C17_Witness ==
    /\ returned["v1"] = "JustifyBlockNotFound"
    /\ Db.last_voted # None
    /\ Votes # {}
    /\ ~block_exists(Db, UnknownId)

\* the transactions of a block that the store has no executed transaction for
MissingOf(db, block) == all_transaction_ids(block) \ DOMAIN db.executed

\* a step that stores a block with missing transactions adds the block, its justify
\* and the waiting entry to the store and nothing else, and sends one request, for
\* these transactions, to the leader
MissingIsQueued ==
    \A block \in store'["v1"].blocks \ Db.blocks :
        MissingOf(Db, block) # {}
            => /\ store'["v1"] =
                      [Db EXCEPT !.blocks = @ \cup {block},
                                 !.qcs = @ \cup {block.justify},
                                 !.missing = @ \cup {[block_id |-> block.id,
                                                      transactions |-> MissingOf(Db, block)]}]
               /\ outbox'["v1"] =
                      Append(outbox["v1"],
                             [type |-> "RequestMissingTransactions",
                              to |-> get_leader(get_local_committee("v1"), block.id),
                              block_id |-> block.id, decision |-> "None",
                              transactions |-> MissingOf(Db, block)])
               /\ events'["v1"] = events["v1"]

\* a block that waits for transactions has not been voted for
WaitingIsUnvoted == \A m \in Db.missing : m.block_id \notin Votes

\* once the transactions are there, reprocess_block does what handle does with the
\* same block when the store does not hold it yet
ReprocessAsHandled ==
    \A m \in Db.missing :
        m.transactions \subseteq DOMAIN Db.executed
            => LET block == get_block(Db, m.block_id) IN
               no_beat(reprocess_block(Db, "v1", m.block_id))
                   = handle([Db EXCEPT !.blocks = @ \ {block}], "v1", "v3", block)

\* C18: a valid local proposal that names a transaction the validator has no
\* executed transaction for is stored with its justify and queued in the waiting
\* index, one RequestMissingTransactions goes to the leader, no marker or pool record
\* changes and no vote is sent while it waits; reprocess_block then handles it as a
\* proposal without missing transactions is handled.
C18_MissingTransaction ==
    /\ [][MissingIsQueued]_vars
    /\ [](WaitingIsUnvoted /\ ReprocessAsHandled)

\* C18 case: the block with Prepare(t1) was requested from the leader, t1 arrived,
\* and the block was reprocessed and voted for
C18_Witness ==
    /\ Db.missing = {}
    /\ \E i \in DOMAIN outbox["v1"] :
           /\ outbox["v1"][i].type = "RequestMissingTransactions"
           /\ outbox["v1"][i].transactions = {"t1"}
           /\ outbox["v1"][i].block_id \in Votes
    /\ Db.pool["t1"].stage = "Prepared"

ConsensusTopics(g) == {t \in g.topics : t[1] = "consensus"}

TransactionTopics(g) == {t \in g.topics : t[1] = "transactions"}

Call(op, topic) == [op |-> op, topic |-> topic, data |-> <<>>, ok |-> TRUE]

\* the overlay has the node on the topic of is_subscribed and on no other topic
OneTopic ==
    /\ ConsensusTopics(gossip) =
           {shard_group_to_topic(sg) : sg \in gossip.is_subscribed}
    /\ TransactionTopics(gossip) =
           {transactions_topic(b) : b \in gossip.mempool_is_subscribed}

\* a successful subscribe leaves the node on the topic of the epoch's shard group,
\* a successful unsubscribe on none, and the other operations change nothing
SubscribeSteps ==
    LET op == gossip'.op
        ok == gossip'.result = "Ok"
    IN  /\ (op[1] = "subscribe" /\ ok)
               => gossip'.is_subscribed = Some(gossip.committees[op[2]].shard_group)
        /\ (op[1] = "unsubscribe" /\ ok) => gossip'.is_subscribed = None
        /\ (op[1] = "mempool_subscribe" /\ ok)
               => gossip'.mempool_is_subscribed = Some(gossip.committees[op[2]].bucket)
        /\ (op[1] = "mempool_unsubscribe" /\ ok) => gossip'.mempool_is_subscribed = None
        /\ op[1] \notin {"subscribe", "unsubscribe", "epoch_changed"}
               => gossip'.is_subscribed = gossip.is_subscribed
        /\ op[1] \notin {"mempool_subscribe", "mempool_unsubscribe"}
               => gossip'.mempool_is_subscribed = gossip.mempool_is_subscribed

\* subscribe for the topic already subscribed calls nothing; for another topic it
\* unsubscribes the old topic and then subscribes the new one
SubscribeCalls ==
    LET op == gossip'.op
        ok == gossip'.result = "Ok"
    IN  /\ (op[1] = "subscribe" /\ ok /\ gossip.is_subscribed # None)
               => LET old == unwrap(gossip.is_subscribed)
                      new == gossip.committees[op[2]].shard_group
                  IN  gossip'.calls =
                          IF old = new THEN <<>>
                          ELSE <<Call("unsubscribe_topic", shard_group_to_topic(old)),
                                 Call("subscribe_topic", shard_group_to_topic(new))>>
        /\ (op[1] = "mempool_subscribe" /\ ok /\ gossip.mempool_is_subscribed # None)
               => LET old == unwrap(gossip.mempool_is_subscribed)
                      new == gossip.committees[op[2]].bucket
                  IN  gossip'.calls =
                          IF old = new THEN <<>>
                          ELSE <<Call("unsubscribe_topic", transactions_topic(old)),
                                 Call("subscribe_topic", transactions_topic(new))>>

\* what subscription state is: is_subscribed of both services and the overlay's topics
Subscription(g) == <<g.is_subscribed, g.mempool_is_subscribed, g.topics>>

\* Subscribe, Unsubscribe, Subscribe for the same epoch is as one Subscribe
ResubscribeIsSubscribe ==
    \A e \in Epochs :
        gossip.committees[e].registered
            => /\ Subscription(subscribe(unsubscribe(subscribe(gossip, e, {}).g, {}).g, e, {}).g)
                      = Subscription(subscribe(gossip, e, {}).g)
               /\ Subscription(mempool_subscribe(
                                   mempool_unsubscribe(mempool_subscribe(gossip, e, {}).g, {}).g,
                                   e, {}).g)
                      = Subscription(mempool_subscribe(gossip, e, {}).g)

\* C19: after any sequence of subscribe and unsubscribe calls the node is on at most
\* one consensus topic, that of the latest successful subscribe unless an
\* unsubscribe followed; subscribe for the shard group already subscribed makes no
\* overlay call; for another shard group it unsubscribes the old topic before it
\* subscribes the new one; Subscribe, Unsubscribe, Subscribe equals one Subscribe.
\* The same for the transactions-<bucket> topic of the mempool gossip.
C19_OneSubscription ==
    /\ [](OneTopic /\ ResubscribeIsSubscribe)
    /\ [][SubscribeSteps /\ SubscribeCalls]_vars

\* C19 case: both services moved from the topic of one shard group to that of the
\* other; the consensus service did so in the last operation
C19_Witness ==
    /\ gossip.op[1] = "subscribe"
    /\ gossip.result = "Ok"
    /\ Len(gossip.calls) = 2
    /\ gossip.is_subscribed = Some([start |-> 32, end |-> 63])
    /\ gossip.mempool_is_subscribed = Some(1)
    /\ gossip.topics = {<<"consensus", 32, 63>>, <<"transactions", 1>>}

\* the members of the local shard group in the current epoch, 0 if not registered
LocalMembers ==
    IF gossip'.committees[gossip'.current_epoch].registered
    THEN gossip'.committees[gossip'.current_epoch].num_shard_group_members
    ELSE 0

AboveLastVoted(db, block) ==
    db.last_voted = None \/ block.height > unwrap(db.last_voted).height

\* the blocks a local leader may propose over the stored blocks, as the store
\* holds them when should_vote runs (the proposal is saved first)
Proposable == ShapedBlocks(Db, {<<>>})

\* C22: once a LastVoted marker exists, should_vote is true exactly when the
\* block is above LastVoted and its justify is above the locked block or it
\* extends the locked block (either rule alone suffices).
C22_ShouldVoteEitherRule ==
    \A block \in Proposable :
        LET db == block_save(Db, block) IN
        db.last_voted # None
            => (should_vote(db, block)
                    <=> (AboveLastVoted(db, block) /\ SafeNode(db, block)))

(***************************************************************************)
(* C23: a vote is sent exactly for the blocks that pass should_vote and    *)
(* whose commands all pass, and it goes to the leader.                     *)
(***************************************************************************)
\* the check of one command against the pool record of its transaction
PassesCheck(db, cmd, shard) ==
    /\ pool_exists(db, cmd.tx)
    /\ LET rec == db.pool[cmd.tx] IN
       CASE cmd.kind = "Prepare" ->
                /\ rec.stage = "New"
                /\ cmd.decision = rec.original_decision
                /\ cmd.decision = "Commit" => lock_inputs(db, cmd.tx, shard).ok
         [] cmd.kind = "LocalPrepared" ->
                /\ rec.stage # "New"
                /\ \/ cmd.decision = rec.original_decision
                   \/ rec.changed_decision = Some(cmd.decision)
         [] cmd.kind = "Accept" ->
                /\ rec.stage \in {"AllPrepared", "SomePrepared"}
                /\ cmd.decision = final_decision(rec)

\* every command from command i on passes, each against the records and locks
\* the commands before it left
RECURSIVE CommandsPass(_, _, _, _)
CommandsPass(db, block, shard, i) ==
    IF i > Len(block.commands) THEN TRUE
    ELSE /\ PassesCheck(db, block.commands[i], shard)
         /\ CommandsPass(decide_command(db, block.commands[i], shard).db,
                         block, shard, i + 1)

NewMessages == {outbox'["v1"][i] : i \in DOMAIN outbox'["v1"] \ DOMAIN outbox["v1"]}

C24_AllPreparedNoAbort ==
    \A t \in DOMAIN Db.pool :
        Db.pool[t].stage = "AllPrepared"
            => /\ all_shards_complete(Db.pool[t])
               /\ Db.pool[t].changed_decision # Some("Abort")

(***************************************************************************)
(* C25: LastVoted after a block that passed should_vote, voted for or not. *)
(***************************************************************************)
\* the blocks processed without an error in this step: new ones, and blocks that
\* waited for transactions and are reprocessed
HandledNow ==
    IF returned'["v1"] # "Ok" THEN {}
    ELSE ProcessedNow
         \cup {get_block(Db, m.block_id) : m \in Db.missing \ store'["v1"].missing}

LastVotedHeight(db) == IF db.last_voted = None THEN 0 ELSE unwrap(db.last_voted).height

\* a block that passes should_vote becomes LastVoted, voted for or not
LastVotedIsSet ==
    \A block \in HandledNow :
        should_vote(block_save(Db, block), block)
            => store'["v1"].last_voted = Some(as_marker(block))

LastVotedGrows == LastVotedHeight(Db) <= LastVotedHeight(store'["v1"])

HasVote(out) == \E i \in DOMAIN out : out[i].type = "Vote"

\* no block at or below the LastVoted height is voted for: neither a stored block
\* that is reprocessed nor a block the leader proposes
NoVoteAtOrBelowLastVoted ==
    Db.last_voted # None
        => /\ \A block \in Db.blocks :
                  block.height <= LastVotedHeight(Db)
                      => ~HasVote(reprocess_block(Db, "v1", block.id).out)
           /\ \A block \in MempoolBlocks(Db) :
                  block.height <= LastVotedHeight(Db)
                      => ~HasVote(handle(Db, "v1", "v3", block).out)

\* C25: a block that passes should_vote and is processed without an error is the
\* LastVoted block afterwards whether it was voted for or not; the LastVoted height
\* never decreases and no block at or below it is voted for, the same block
\* reprocessed included.
C25_LastVotedBeforeCommands ==
    /\ []NoVoteAtOrBelowLastVoted
    /\ [][LastVotedIsSet /\ LastVotedGrows]_vars

\* C25 case: the validator abstained on the LastVoted block, whose Prepare failed,
\* and a block of the same height that arrived later was not voted for either
C25_Witness ==
    /\ returned["v1"] = "Ok"
    /\ \E block \in Db.blocks, later \in Db.blocks :
           /\ Db.last_voted = Some(as_marker(block))
           /\ block.commands # <<>>
           /\ block.id \notin Votes
           /\ \A m \in Db.missing : m.block_id # block.id
           /\ later # block
           /\ later.height = block.height
           /\ later.commands = <<>>
           /\ later.id \notin Votes

(***************************************************************************)
(* C26: where locks are taken, and the transactions decided Abort.         *)
(***************************************************************************)
\* a transaction that holds a lock it did not hold before was New, decided Commit
\* and named by a Prepare(t, Commit) of the block processed in this step
LockedAtPrepareCommit ==
    \A t \in TxIds :
        ~(HeldBy(store'["v1"], t) \subseteq HeldBy(Db, t))
            => /\ pool_exists(Db, t)
               /\ Db.pool[t].stage = "New"
               /\ Db.pool[t].original_decision = "Commit"
               /\ \E block \in store'["v1"].blocks \ Db.blocks :
                      Cmd("Prepare", t, "Commit") \in Range(block.commands)

\* a voted block's Prepare(t, Abort) moves t to Prepared and takes no lock
PrepareAbortTakesNoLock ==
    \A block \in ProcessedNow :
        \A c \in Range(block.commands) :
            (c.kind = "Prepare" /\ c.decision = "Abort" /\ block.id \in NewVotes)
                => /\ Db.pool[c.tx].stage = "New"
                   /\ Db.pool[c.tx].original_decision = "Abort"
                   /\ store'["v1"].pool[c.tx].stage = "Prepared"
                   /\ HeldBy(store'["v1"], c.tx) = {}

\* a transaction decided Abort holds no lock, in any stage and after its removal
AbortedHoldsNoLock ==
    \A t \in DOMAIN Db.executed :
        Db.executed[t].decision = "Abort" => HeldBy(Db, t) = {}

\* the blocks whose BlockCommitted event is published in this step
CommittedNow ==
    {get_block(store'["v1"], events'["v1"][i]) :
        i \in DOMAIN events'["v1"] \ DOMAIN events["v1"]}

\* the execution of Accept(t, Abort) for a transaction decided Abort succeeds,
\* removes the record and stamps the final decision
AcceptAbortCompletes ==
    \A block \in CommittedNow :
        \A c \in Range(block.commands) :
            (c.kind = "Accept" /\ c.decision = "Abort" /\ c.tx \in DOMAIN Db.pool
             /\ Db.pool[c.tx].original_decision = "Abort")
                => /\ returned'["v1"] = "Ok"
                   /\ ~pool_exists(store'["v1"], c.tx)
                   /\ store'["v1"].executed[c.tx].final_decision = Some("Abort")
                   /\ store'["v1"].applied[c.tx] = Db.applied[c.tx]
                   /\ store'["v1"].locks = Db.locks

\* C26: locks are taken only by a Prepare(t, Commit) for a New record decided
\* Commit; a Prepare(t, Abort) that is voted for leaves t Prepared without a lock,
\* t never holds a lock, and the execution of Accept(t, Abort) succeeds and
\* removes the pool record.
C26_LocksOnlyAtPrepareCommit ==
    /\ []AbortedHoldsNoLock
    /\ [][LockedAtPrepareCommit /\ PrepareAbortTakesNoLock /\ AcceptAbortCompletes]_vars

\* C26 case: t1 was decided Abort, went through Prepare, LocalPrepared and Accept
\* with Abort, the Accept was executed and the record is gone
C26_Witness ==
    /\ returned["v1"] = "Ok"
    /\ Db.executed["t1"].decision = "Abort"
    /\ Db.executed["t1"].final_decision = Some("Abort")
    /\ ~pool_exists(Db, "t1")
    /\ HeldBy(Db, "t1") = {}
    /\ \E block \in Db.blocks :
           /\ block.commands = <<Cmd("Accept", "t1", "Abort")>>
           /\ block.id \in Votes
           /\ block.id \in Range(events["v1"])

(***************************************************************************)
(* C27: the processing of one block is one write transaction.              *)
(***************************************************************************)
\* the local blocks stored in a step whose processing returned an error
FailedNow ==
    IF returned'["v1"] # "StorageError" THEN {}
    ELSE store'["v1"].blocks \ Db.blocks

\* C27: when the processing of a block returns an error the store holds the block
\* and its justify QC (saved by the transaction before) and is otherwise as it
\* was: LastVoted, pool records, locks, high_qc, LockedBlock, LastExecuted and
\* the executed transactions are unchanged, and no message is sent.
C27_ProcessingIsAtomic ==
    [][\A block \in FailedNow :
          /\ store'["v1"] = block_save(qc_save(Db, block.justify), block)
          /\ outbox'["v1"] = outbox["v1"]]_vars

\* C27 case: the validator has voted before; a block above LastVoted passed
\* should_vote and failed on a command whose transaction has no pool record any
\* more: it is stored, not voted for, and LastVoted is the marker of before
C27_Witness ==
    /\ returned["v1"] = "StorageError"
    /\ Votes # {}
    /\ \E block \in Db.blocks :
           /\ block.commands # <<>>
           /\ ~pool_exists(Db, block.commands[1].tx)
           /\ block.id \notin Votes
           /\ should_vote(Db, block)
           /\ Db.last_voted # Some(as_marker(block))
           /\ Db.last_voted # None

(***************************************************************************)
(* C28: the answers of the validation, for local and foreign proposals.    *)
(***************************************************************************)
\* proposals over the stored blocks: well-formed ones of any shape, the rejected
\* shapes, and each of them with a wrong id, with the genesis id, with height 0
\* (hash recomputed or not) and with a justify height that is one too high
ValidationInputs(db) ==
    LET base == ShapedBlocks(db, {<<>>}) \cup BadBlocks IN
    base
    \cup {[b EXCEPT !.id = <<"bad">>] : b \in base}
    \cup {[b EXCEPT !.id = GenesisId] : b \in base}
    \cup {[b EXCEPT !.height = 0] : b \in base}
    \cup {Block(b.parent, b.justify, 0, b.commands) : b \in base}
    \cup {Block(b.parent, [b.justify EXCEPT !.block_height = @ + 1], b.height, b.commands) :
             b \in base}

\* the answer of the validation: the first check of the list that fails
ExpectedAnswer(db, block, local) ==
    CASE block.height = 0 \/ block.id = GenesisId -> "ProposingGenesisBlock"
      [] OTHER ->
         CASE calculate_hash(block) # block.id -> "NodeHashMismatch"
           [] OTHER ->
              CASE local /\ ~(\E j \in db.blocks : j.id = block.justify.block_id) ->
                       "JustifyBlockNotFound"
                [] OTHER ->
                   CASE local /\ (\E j \in db.blocks : /\ j.id = block.justify.block_id
                                                       /\ j.height # block.justify.block_height) ->
                            "JustifyBlockInvalid"
                     [] OTHER -> "Accepted"

\* what handle answered: a validation error, or the proposal was accepted (and
\* then saved: the block of a local proposal, the justify QC of a foreign one)
Answer(db, from, block) ==
    LET r == handle(db, "v1", from, block) IN
    IF r.result \in ValidationErrors THEN r.result
    ELSE IF is_local("v1", from) /\ block_exists(r.db, block.id) THEN "Accepted"
    ELSE IF ~is_local("v1", from) /\ block.justify \in r.db.qcs THEN "Accepted"
    ELSE "Neither"

\* C28: every proposal is answered with the first failing check: height 0 or the
\* genesis id, then the hash, and for a local sender then the lookup of the justify
\* block and its height; a proposal that passes its checks is accepted.
C28_ValidationAnswers ==
    \A block \in ValidationInputs(Db), from \in {"v3", "v2"} :
        Answer(Db, from, block) = ExpectedAnswer(Db, block, from \in Range(Members["A"]))

\* C28 case: the local proposal handled last named a stored justify block with a
\* wrong height, and a foreign proposal whose justify block is not stored was
\* accepted before
C28_Witness ==
    /\ returned["v1"] = "JustifyBlockInvalid"
    /\ ForeignQc("B") \in Db.qcs
    /\ ~block_exists(Db, ForeignQc("B").block_id)
    /\ Cardinality(Db.blocks) > 1

(***************************************************************************)
(* C29: local or foreign by the sender, and what a foreign proposal may    *)
(* change.                                                                 *)
(***************************************************************************)
\* proposals a member of a committee may send: the foreign committee's blocks, a
\* foreign block with any one command for t1, and blocks on the validator's own tip
ProposalsFrom(db, shard) ==
    ForeignBlocks(shard)
    \cup {Block(<<"foreign", shard>>, ForeignQc(shard), 2, <<c>>) : c \in CmdsOf("t1")}
    \cup PoolBlocks(db)

NamedByLocalPrepared(block) ==
    {block.commands[i].tx :
        i \in {k \in DOMAIN block.commands : block.commands[k].kind = "LocalPrepared"}}

\* what handling a foreign proposal leaves alone
ForeignFrame(db, r, block) ==
    /\ r.out = <<>>
    /\ r.events = <<>>
    /\ r.db.blocks = db.blocks
    /\ r.db.qcs = db.qcs \cup {block.justify}
    /\ r.db.last_voted = db.last_voted
    /\ r.db.locked_block = db.locked_block
    /\ r.db.last_executed = db.last_executed
    /\ r.db.high_qc = db.high_qc
    /\ r.db.locks = db.locks
    /\ r.db.executed = db.executed
    /\ r.db.applied = db.applied
    /\ r.db.missing = db.missing
    /\ DOMAIN r.db.pool = DOMAIN db.pool
    /\ \A t \in DOMAIN db.pool :
           IF t \in NamedByLocalPrepared(block)
           THEN r.db.pool[t].original_decision = db.pool[t].original_decision
           ELSE r.db.pool[t] = db.pool[t]

\* what tells that a proposal was handled as a local one: it is validated against
\* the stored justify block and, when valid, inserted
LocalHandling(db, r, block) ==
    IF \E j \in db.blocks : j.id = block.justify.block_id
    THEN block_exists(r.db, block.id)
    ELSE r.result = "JustifyBlockNotFound" /\ r.db = db

\* C29: a proposal of a member of the local committee is handled as a local
\* proposal and one of any other sender as a foreign proposal, which inserts no
\* block, sends nothing and leaves the markers, the locks and every pool record
\* not named by one of its LocalPrepared commands as they were; it saves the
\* justify QC and may change evidence, changed_decision and stage of the named
\* records.
C29_ForeignProposalFrame ==
    \A from \in Addrs \ {"v1"} :
        \A block \in ProposalsFrom(Db, ShardOfAddr(from)) :
            LET r == handle(Db, "v1", from, block) IN
            IF from \in Range(Members["A"])
            THEN LocalHandling(Db, r, block)
            ELSE ForeignFrame(Db, r, block) /\ ~block_exists(r.db, block.id)

\* C29 case: after local blocks were voted for, the proposal of shard B's
\* committee changed the decision of t1 to Abort; its block is not stored, its
\* justify QC is
C29_Witness ==
    /\ returned["v1"] = "Ok"
    /\ beats["v1"] > 0
    /\ Votes # {}
    /\ pool_exists(Db, "t1")
    /\ Db.pool["t1"].evidence["B"] = {ForeignQc("B")}
    /\ Db.pool["t1"].changed_decision = Some("Abort")
    /\ ForeignQc("B") \in Db.qcs
    /\ \A b \in ForeignBlocks("B") : ~block_exists(Db, b.id)

(***************************************************************************)
(* C30: a foreign LocalPrepared for a Complete record or for a transaction *)
(* without a pool record.                                                  *)
(***************************************************************************)
\* the record of t is Complete or there is none
IsSkipped(db, t) == pool_exists(db, t) => db.pool[t].stage = "Complete"

ForeignOf(cmds) == Block(<<"foreign", "B">>, ForeignQc("B"), 2, cmds)

\* a foreign LocalPrepared for a skipped transaction changes nothing but the QCs,
\* without an error; followed by a LocalPrepared for t2 the block has the effect
\* of the second command alone, which records the evidence of shard B for t2
SkippedAndContinued ==
    \A d \in Decisions, d2 \in Decisions :
        IsSkipped(Db, "t1")
            => LET one == handle(Db, "v1", "v2", ForeignOf(<<Cmd("LocalPrepared", "t1", d)>>))
                   both == handle(Db, "v1", "v2",
                                  ForeignOf(<<Cmd("LocalPrepared", "t1", d),
                                              Cmd("LocalPrepared", "t2", d2)>>))
                   second == handle(Db, "v1", "v2",
                                    ForeignOf(<<Cmd("LocalPrepared", "t2", d2)>>))
               IN  /\ one.result = "Ok"
                   /\ one.db = [Db EXCEPT !.qcs = @ \cup {ForeignQc("B")}]
                   /\ both.result = "Ok"
                   /\ both.db = second.db
                   /\ both.db.pool["t2"].evidence["B"] = {ForeignQc("B")}
                   /\ (d2 = "Abort" /\ Db.pool["t2"].original_decision = "Commit")
                          => both.db.pool["t2"].changed_decision = Some("Abort")

\* a foreign proposal handled in this step left a Complete record as it was and
\* created no record
SkippedInStep ==
    beats'["v1"] > beats["v1"]
        => /\ returned'["v1"] = "Ok"
           /\ \A t \in TxIds :
                  IsSkipped(Db, t)
                      => /\ pool_exists(store'["v1"], t) = pool_exists(Db, t)
                         /\ pool_exists(Db, t) => store'["v1"].pool[t] = Db.pool[t]

\* C30: a foreign LocalPrepared(t, d) leaves a Complete record of t as it is and
\* is skipped without an error when t has no record; the commands after it in
\* the same block are processed.
C30_CompleteOrMissingSkipped ==
    /\ []SkippedAndContinued
    /\ [][SkippedInStep]_vars

\* C30 case: t1 was decided Commit and is Complete with its decision unchanged, so
\* no foreign Abort reached it before; the proposal [LocalPrepared(t1, Abort),
\* LocalPrepared(t2, Abort)] handled afterwards changed the decision of t2
C30_Witness ==
    /\ returned["v1"] = "Ok"
    /\ pool_exists(Db, "t1")
    /\ Db.pool["t1"].stage = "Complete"
    /\ Db.pool["t1"].original_decision = "Commit"
    /\ Db.pool["t1"].changed_decision = None
    /\ Db.pool["t2"].original_decision = "Commit"
    /\ Db.pool["t2"].changed_decision = Some("Abort")
    /\ Db.pool["t2"].evidence["B"] = {ForeignQc("B")}

(***************************************************************************)
(* C21: every validator finalizes the transaction.                         *)
(***************************************************************************)
\* Validator::uncommitted_transaction_count() = 0 for every validator: no pool
\* record is left and the transaction carries its final decision
AllTransactionsCommitted ==
    \A v \in Validators : store[v].pool = <<>> /\ Finalized(v, "t1")

\* a step Propose(v) that changes the state is possible: the handler's answer to
\* one of the leader's blocks fits the bounds of apply and differs from the state
CanPropose(v) ==
    \E tip \in Tips(store[v]) :
        /\ tip = GenesisBlock \/ tip.id \in VotesOf(v)
        /\ Cardinality(store[v].blocks) <= MaxBlocks
        /\ \E cmds \in UNION {{<<c>> : c \in ReadyCommands(store[v].pool[t], t)} :
                                          t \in {x \in DOMAIN store[v].pool :
                                                    store[v].pool[x].is_ready}} :
               LET r == handle(store[v], v, v, Block(tip.id, QcOf(tip), tip.height + 1, cmds))
               IN  /\ Len(outbox[v]) + Len(r.out) <= MaxOut
                   /\ Len(events[v]) + Len(r.events) <= MaxOut
                   /\ r.beat => beats[v] < MaxForeign
                   /\ \/ r.db # store[v]
                      \/ r.out # <<>>
                      \/ r.events # <<>>
                      \/ r.beat
                      \/ r.result # returned[v]

\* the enabling condition in the fairness of SpecLive is the one of Propose
ProposeEnabledIsExact == \A v \in Validators : ProposeEnabled(v) <=> CanPropose(v)

\* C21: with the transaction in the pool of every committee's validator, every
\* leader proposing while it can and every proposal delivered, eventually no
\* validator has an unfinalized transaction (and the fairness on proposing is
\* stated with the exact enabling condition of the proposing step).
C21_EventuallyAllCommitted == []ProposeEnabledIsExact /\ <>AllTransactionsCommitted

\* C21 case: every committee decided Commit, each record went through the stages
\* up to its removal, and every validator applied the transaction once
C21_Witness ==
    /\ AllTransactionsCommitted
    /\ \A v \in Validators :
           /\ store[v].executed["t1"].decision = "Commit"
           /\ store[v].applied["t1"] = 1
           /\ beats[v] = 2
           /\ Len(events[v]) = 3

(***************************************************************************)
(* C31: the pacemaker is notified after a foreign proposal is persisted.   *)
(***************************************************************************)
ForeignSenders == Addrs \ Range(get_local_committee("v1"))

\* the answer of the handler to every foreign proposal in the present store: a
\* beat exactly when the proposal is valid and the write transaction commits,
\* and then the store holds the updates of on_receive_foreign_block; no beat,
\* an error and the store as it was otherwise
BeatAnswers ==
    \A from \in ForeignSenders :
        \A block \in ForeignBlocks(ShardOfAddr(from)) \cup BadBlocks,
           storage_fails \in BOOLEAN :
            LET r == handle_foreign_proposal_tx(Db, from, block, storage_fails)
                commits == validate_proposed_block(block) = "Ok" /\ ~storage_fails
            IN  /\ r.beat <=> commits
                /\ commits => /\ r.result = "Ok"
                              /\ r.db = on_receive_foreign_block(Db, block, ShardOfAddr(from))
                /\ ~commits => r.result # "Ok" /\ r.db = Db

\* the pacemaker is notified at most once in a step; a step that notifies it
\* returned Ok and persisted the updates of a valid foreign proposal; a step that
\* returned an error did not notify it
BeatSteps ==
    /\ beats'["v1"] \in {beats["v1"], beats["v1"] + 1}
    /\ beats'["v1"] = beats["v1"] + 1 =>
           /\ returned'["v1"] = "Ok"
           /\ \E from \in ForeignSenders :
                  \E block \in ForeignBlocks(ShardOfAddr(from)) :
                      /\ validate_proposed_block(block) = "Ok"
                      /\ store'["v1"] = on_receive_foreign_block(Db, block, ShardOfAddr(from))
    /\ returned'["v1"] # "Ok" => beats' = beats

\* C31: a foreign proposal that passes validation and whose write transaction
\* commits notifies the pacemaker once, with its evidence and stage updates in
\* the store; a proposal that fails validation or whose write transaction fails
\* notifies nobody and changes nothing.
C31_BeatAfterPersist == []BeatAnswers /\ [][BeatSteps]_vars

\* C31 case: a valid proposal of shard B was persisted and the pacemaker notified
\* once; then the write transaction of a proposal failed, without a notification
C31_Witness ==
    /\ returned["v1"] = "StorageError"
    /\ beats["v1"] = 1
    /\ pool_exists(Db, "t1")
    /\ Db.pool["t1"].evidence["B"] = {ForeignQc("B")}
    /\ Cardinality(Db.blocks) = 1

(***************************************************************************)
(* C32: the topics forward_to_foreign_replicas publishes to.               *)
(***************************************************************************)
\* the arguments of the forward_to_foreign_replicas call of the last step
ForwardArgs ==
    [epoch |-> gossip.op[2], shards |-> gossip.op[3], msg |-> gossip.op[4],
     exclude_bucket |-> gossip.op[5], n |-> gossip.op[6]]

\* the buckets of the shards other than the local and the excluded bucket
ExpectedBuckets ==
    {to_committee_bucket(sh, ForwardArgs.n) : sh \in ForwardArgs.shards}
        \ ({gossip.committees[ForwardArgs.epoch].bucket} \cup ForwardArgs.exclude_bucket)

PublishedTo(topic) ==
    {i \in DOMAIN gossip.calls :
        gossip.calls[i].op = "publish_message" /\ gossip.calls[i].topic = topic}

\* C32: a call of forward_to_foreign_replicas that returns Ok has published the
\* message once to the transactions topic of every bucket of the shards other
\* than the local and the excluded bucket; whatever it returns, every overlay
\* call is a publish of the message to the topic of such a bucket, no topic is
\* published to twice, and nothing is published when there is no such bucket.
C32_ForwardTopics ==
    gossip.op[1] = "forward_to_foreign_replicas" =>
        /\ \A i \in DOMAIN gossip.calls :
               /\ gossip.calls[i].op = "publish_message"
               /\ gossip.calls[i].data = proto_from(ForwardArgs.msg)
               /\ \E b \in ExpectedBuckets : gossip.calls[i].topic = transactions_topic(b)
        /\ \A b \in Buckets : Cardinality(PublishedTo(transactions_topic(b))) <= 1
        /\ PublishedTo(transactions_topic(gossip.committees[ForwardArgs.epoch].bucket)) = {}
        /\ gossip.result = "Ok" =>
               /\ \A b \in ExpectedBuckets : Cardinality(PublishedTo(transactions_topic(b))) = 1
               /\ \A i \in DOMAIN gossip.calls : gossip.calls[i].ok
        /\ ExpectedBuckets = {} => gossip.calls = <<>>

\* C32 case: the shards map to four buckets, the local and the excluded one among
\* them; the message went to the two others, once each
C32_Witness ==
    /\ gossip.op[1] = "forward_to_foreign_replicas"
    /\ gossip.result = "Ok"
    /\ ForwardArgs.n = 4
    /\ ForwardArgs.shards = {0, 16, 32, 48}
    /\ gossip.committees[ForwardArgs.epoch].bucket = 0
    /\ ForwardArgs.exclude_bucket = Some(2)
    /\ Len(gossip.calls) = 2
    /\ {gossip.calls[i].topic : i \in DOMAIN gossip.calls}
           = {transactions_topic(1), transactions_topic(3)}

(***************************************************************************)
(* C33: an inbound gossip message that does not decode.                    *)
(***************************************************************************)
\* the step handled the inbound gossip message of peer from with payload data
HandledGossip(from, data) == gossip'.op = <<"gossip_message", from, data>>

WellFormed(data) == \E m \in HotstuffMessages : data = encode_to(m)

\* the decoder reads the messages the encoder writes, and nothing else
DecodesWhatIsEncoded ==
    /\ \A m \in HotstuffMessages : decode_from(encode_to(m)) = [ok |-> TRUE, msg |-> m]
    /\ \A data \in InboundData : decode_from(data).ok <=> WellFormed(data)

\* a payload that does not decode yields InvalidMessage; the service keeps
\* running, the consensus channel, the subscription and the overlay are as
\* before and no overlay call is made
UndecodableIsDropped ==
    \A from \in Peers, data \in InboundData :
        (HandledGossip(from, data) /\ ~WellFormed(data)) =>
            /\ gossip'.result = "InvalidMessage"
            /\ gossip'.running
            /\ gossip'.consensus_channel = gossip.consensus_channel
            /\ gossip'.is_subscribed = gossip.is_subscribed
            /\ gossip'.topics = gossip.topics
            /\ gossip'.calls = <<>>

\* a well-formed payload that is handled without an error is decoded and added
\* at the end of the consensus channel with the peer id of its sender
WellFormedIsForwarded ==
    \A from \in Peers, m \in HotstuffMessages :
        (HandledGossip(from, encode_to(m)) /\ gossip'.result = "Ok") =>
            /\ gossip'.consensus_channel = Append(gossip.consensus_channel, <<from, m>>)
            /\ gossip'.running
            /\ gossip'.is_subscribed = gossip.is_subscribed

\* C33: a gossip message that fails to decode yields InvalidMessage for that
\* message only: the loop keeps running, nothing reaches the consensus channel,
\* the subscription is unchanged; well-formed messages, before or after it, are
\* decoded and forwarded with their sender's peer id in the order of arrival.
C33_InvalidMessageIsSkipped ==
    [][DecodesWhatIsEncoded /\ UndecodableIsDropped /\ WellFormedIsForwarded]_vars

\* C33 case: a message of peer p1 was forwarded, a payload with a wrong length
\* prefix was dropped, and then a message of peer p2 was forwarded; the service
\* runs and is still subscribed
C33_Witness ==
    /\ gossip.running
    /\ gossip.op[1] = "gossip_message"
    /\ gossip.result = "Ok"
    /\ gossip.consensus_channel = <<<<"p1", <<"Vote">>>>, <<"p2", <<"Proposal", "b1">>>>>>
    /\ gossip.is_subscribed # None

(***************************************************************************)
(* C34: the subscription when run has returned.                            *)
(***************************************************************************)
\* C34: when the run loop of the consensus gossip service has terminated, after
\* the closing of its channels or after an error of the epoch-change handling,
\* no consensus topic is subscribed on the overlay.
C34_TerminatedUnsubscribed ==
    ~gossip.running => ConsensusTopics(gossip) = {}

(***************************************************************************)
(* C35: how execute_transaction classifies the outcomes.                   *)
(***************************************************************************)
\* the arguments of the execute_transaction call of the last step
ExecuteArgs ==
    [virtual_substates |-> gossip.op[3], resolved |-> gossip.op[4],
     execution |-> gossip.op[5]]

Invoked == {gossip.calls[i].op : i \in DOMAIN gossip.calls}

TransactionFailure(err) == gossip.result = "Ok(Err)" /\ gossip.execution = Ok(Err(err))

SystemFailure(err) == gossip.result = "Err" /\ gossip.execution = Err(err)

\* C35: UnauthorizedFeeClaim of resolve_virtual_substates and InputSubstateDowned
\* or InputSubstateDoesNotExist of resolve are returned as a transaction failure
\* Ok(Err(..)) and the executor is not invoked; every other resolver error is a
\* system failure Err(..); a panic of the blocking worker is
\* Err(ExecutionThreadFailure); after a failed resolve_virtual_substates neither
\* resolve nor the executor is invoked.
C35_OutcomeClasses ==
    gossip.op[1] = "execute_transaction" =>
        LET v == ExecuteArgs.virtual_substates
            r == ExecuteArgs.resolved
        IN  /\ ~v.ok =>
                   /\ Invoked = {"resolve_virtual_substates"}
                   /\ IF v.value = "UnauthorizedFeeClaim"
                      THEN TransactionFailure(v.value) ELSE SystemFailure(v.value)
            /\ (v.ok /\ ~r.ok) =>
                   /\ Invoked = {"resolve_virtual_substates", "resolve"}
                   /\ IF r.value \in {"InputSubstateDowned", "InputSubstateDoesNotExist"}
                      THEN TransactionFailure(r.value) ELSE SystemFailure(r.value)
            /\ (v.ok /\ r.ok) =>
                   /\ Invoked = {"resolve_virtual_substates", "resolve", "execute"}
                   /\ ExecuteArgs.execution.panicked => SystemFailure("ExecutionThreadFailure")
            /\ Len(gossip.calls) = Cardinality(Invoked)

\* C35 case: the virtual substates resolved, an input was downed: a transaction
\* failure, and the executor was not invoked
C35_Witness ==
    /\ gossip.op[1] = "execute_transaction"
    /\ ExecuteArgs.virtual_substates.ok
    /\ ExecuteArgs.resolved = Err("InputSubstateDowned")
    /\ TransactionFailure("InputSubstateDowned")
    /\ "execute" \notin Invoked

(***************************************************************************)
(* C36: the lock intents of the resolved inputs.                           *)
(***************************************************************************)
ExecutedOk == gossip.op[1] = "execute_transaction" /\ gossip.result = "Ok(Ok)"

ExecutedTransaction == gossip.execution.value.value

\* C36: after a successful execution with an accepted diff the resolved inputs
\* hold one lock intent per resolved input, in the resolver's order, with the
\* input's id and version: Write when the diff downs the input's substate id,
\* Read otherwise; without an accepted diff the resolved inputs are empty.
C36_LockIntents ==
    ExecutedOk =>
        LET inputs == ExecuteArgs.resolved.value
            accept == ExecutedTransaction.finalize.accept
        IN  IF accept = None THEN ExecutedTransaction.resolved_inputs = <<>>
            ELSE /\ Len(ExecutedTransaction.resolved_inputs) = Len(inputs)
                 /\ \A i \in DOMAIN inputs :
                        /\ ExecutedTransaction.resolved_inputs[i].versioned_substate_id
                               = [substate_id |-> inputs[i].id,
                                  version |-> inputs[i].substate.version]
                        /\ ExecutedTransaction.resolved_inputs[i].lock_flag
                               = IF inputs[i].id \in {d[1] : d \in unwrap(accept).down}
                                 THEN "Write" ELSE "Read"

\* C36 case: inputs b and a in this order; the diff downs a, at another version
\* than the input's, and a substate that is no input: b is read, a is written
C36_Witness ==
    /\ ExecutedOk
    /\ ExecuteArgs.resolved.value = <<Substate("b", 0), Substate("a", 0)>>
    /\ ExecutedTransaction.finalize.accept = Some([down |-> {<<"a", 1>>, <<"c", 0>>}])
    /\ ExecutedTransaction.resolved_inputs
           = <<[versioned_substate_id |-> [substate_id |-> "b", version |-> 0],
                lock_flag |-> "Read"],
               [versioned_substate_id |-> [substate_id |-> "a", version |-> 0],
                lock_flag |-> "Write"]>>

(***************************************************************************)
(* C37: LastExecuted over the processed blocks.                            *)
(***************************************************************************)
\* C37: the height of LastExecuted never decreases, whatever local blocks are
\* processed (stale ones, blocks the validator does not vote for), and no block
\* is executed twice: every block id occurs at most once among the BlockCommitted
\* events.
C37_LastExecutedMonotonic ==
    [][/\ store'["v1"].last_executed.height >= Db.last_executed.height
       /\ \A i \in DOMAIN events'["v1"], j \in DOMAIN events'["v1"] :
              events'["v1"][i] = events'["v1"][j] => i = j]_vars

(***************************************************************************)
(* C38: BlockCommitted events and the write transaction of on_commit.      *)
(***************************************************************************)
\* C38: a call whose write transaction fails and is rolled back has published no
\* BlockCommitted event: the events are those published before the call.
C38_EventsOnlyWhenPersisted ==
    [][returned'["v1"] # "Ok" => events'["v1"] = events["v1"]]_vars

(***************************************************************************)
(* C39: the vote is sent after the write transaction has committed.        *)
(***************************************************************************)
\* the votes sent in this step
SentNow ==
    {outbox'["v1"][i] : i \in {k \in DOMAIN outbox'["v1"] \ DOMAIN outbox["v1"] :
                                  outbox'["v1"][k].type = "Vote"}}

\* a vote is sent by a call that returns Ok, whose transaction has stored the block
\* as LastVoted and has applied the block's Prepare: stage Prepared, inputs locked
VoteAfterCommit ==
    \A m \in SentNow :
        /\ returned'["v1"] = "Ok"
        /\ block_exists(store'["v1"], m.block_id)
        /\ LET block == get_block(store'["v1"], m.block_id) IN
           /\ store'["v1"].last_voted = Some(as_marker(block))
           /\ \A i \in DOMAIN block.commands :
                  /\ store'["v1"].pool[block.commands[i].tx].stage = "Prepared"
                  /\ "t1" \in store'["v1"].locks["s1"].w \cup store'["v1"].locks["s1"].r

\* every vote sent is for a stored block at or below the persisted LastVoted height,
\* and no two votes are for blocks of the same height
SentVotesArePersisted ==
    /\ \A i \in DOMAIN outbox["v1"] :
           outbox["v1"][i].type = "Vote"
               => /\ block_exists(Db, outbox["v1"][i].block_id)
                  /\ get_block(Db, outbox["v1"][i].block_id).height <= LastVotedHeight(Db)
    /\ \A i \in DOMAIN outbox["v1"], j \in DOMAIN outbox["v1"] :
           (/\ outbox["v1"][i].type = "Vote" /\ outbox["v1"][j].type = "Vote"
            /\ block_exists(Db, outbox["v1"][i].block_id)
            /\ block_exists(Db, outbox["v1"][j].block_id)
            /\ get_block(Db, outbox["v1"][i].block_id).height
                   = get_block(Db, outbox["v1"][j].block_id).height)
               => i = j

\* after a restart with this store, no block at or below the LastVoted height is
\* voted for: neither a stored block delivered again nor a new one
NoSecondVoteAfterRestart ==
    \A block \in Db.blocks \cup ShapedBlocks(Db, CrashCmdLists) :
        block.height <= LastVotedHeight(Db)
            => ~HasVote(handle(Db, "v1", "v3", block).out)

\* C39: a vote for block B is sent only after the write transaction that set
\* LastVoted to B and applied B's stage transitions and locks has committed;
\* whenever a vote has been sent the persisted LastVoted height is at least the
\* block's height, and a stop between persisting and sending loses the vote but a
\* restart never votes at that height again.
C39_VoteAfterPersist ==
    /\ [](SentVotesArePersisted /\ NoSecondVoteAfterRestart)
    /\ [][VoteAfterCommit]_vars

\* C39 case: a vote was sent for a block that prepares t1; the vote for the
\* LastVoted block, which is empty, was lost in a stop and the block delivered
\* again was not voted for
C39_Witness ==
    /\ returned["v1"] = "Ok"
    /\ \E sent \in Db.blocks, lost \in Db.blocks :
           /\ sent.id \in Votes
           /\ sent.commands # <<>>
           /\ Db.last_voted = Some(as_marker(lost))
           /\ lost.commands = <<>>
           /\ lost.id \notin Votes
           /\ lost.height > sent.height

(***************************************************************************)
(* C40: is_subscribed and the overlay subscription when overlay calls fail.*)
(***************************************************************************)
\* the operations of the two services, and what each keeps in is_subscribed
ConsensusOps == {"subscribe", "unsubscribe", "epoch_changed"}

MempoolOps == {"mempool_subscribe", "mempool_unsubscribe"}

LastCall(g) == g.calls[Len(g.calls)]

FailedAt(g, op) == g.calls # <<>> /\ LastCall(g).op = op /\ ~LastCall(g).ok

\* the topic that is_subscribed names, for each service: none when it is None
FieldTopics(g) == {shard_group_to_topic(sg) : sg \in g.is_subscribed}

MempoolFieldTopics(g) == {transactions_topic(b) : b \in g.mempool_is_subscribed}

\* one service's step, old and new being the topics its field named before and names
\* now: a failed unsubscribe_topic keeps the field and the topic, a failed
\* subscribe_topic leaves the field None and no topic, and the field changes to a
\* value only with a subscribe_topic that succeeded for the value's topic
FailureSteps(ops, old, new, topics) ==
    gossip'.op[1] \in ops
        => /\ FailedAt(gossip', "unsubscribe_topic")
                  => (gossip'.result = "Err" /\ new = old /\ old # {} /\ topics = old)
           /\ FailedAt(gossip', "subscribe_topic")
                  => (gossip'.result = "Err" /\ new = {} /\ topics = {})
           /\ (new # old /\ new # {})
                  => /\ gossip'.result = "Ok"
                     /\ \E topic \in new : LastCall(gossip') = Call("subscribe_topic", topic)
           /\ (new # old /\ old # {})
                  => \E i \in DOMAIN gossip'.calls, topic \in old :
                         gossip'.calls[i] = Call("unsubscribe_topic", topic)

\* no needed call is skipped and no topic is unsubscribed that is not subscribed:
\* unsubscribe_topic is called for a topic the overlay has, subscribe_topic for one
\* it has not, and an operation that returns Ok without a call changes nothing
NeededCalls ==
    /\ \A i \in DOMAIN gossip'.calls :
           /\ gossip'.calls[i].op = "unsubscribe_topic"
                  => gossip'.calls[i].topic \in gossip.topics
           /\ gossip'.calls[i].op = "subscribe_topic"
                  => gossip'.calls[i].topic \notin gossip.topics
    /\ (gossip'.op[1] \in {"subscribe", "mempool_subscribe"} /\ gossip'.result = "Ok")
           => (IF gossip'.op[1] = "subscribe"
               THEN shard_group_to_topic(gossip.committees[gossip'.op[2]].shard_group)
               ELSE transactions_topic(gossip.committees[gossip'.op[2]].bucket))
                  \in gossip'.topics
    /\ (gossip'.op[1] \in {"unsubscribe", "mempool_unsubscribe"} /\ gossip'.result = "Ok")
           => (IF gossip'.op[1] = "unsubscribe" THEN ConsensusTopics(gossip')
               ELSE TransactionTopics(gossip')) = {}

\* C40: is_subscribed of both gossip services equals the overlay subscription in
\* every state, also after failed overlay calls: a failed unsubscribe_topic keeps
\* the old value, a failed subscribe_topic after the unsubscribe leaves None, the
\* new value is set only after subscribe_topic succeeded; no later call skips a
\* needed overlay call or unsubscribes a topic that is not subscribed.
C40_FieldEqualsOverlay ==
    /\ [](/\ ConsensusTopics(gossip) = FieldTopics(gossip)
          /\ TransactionTopics(gossip) = MempoolFieldTopics(gossip)
          /\ Cardinality(gossip.is_subscribed) <= 1
          /\ Cardinality(gossip.mempool_is_subscribed) <= 1)
    /\ [][/\ FailureSteps(ConsensusOps, FieldTopics(gossip), FieldTopics(gossip'),
                          ConsensusTopics(gossip'))
          /\ FailureSteps(MempoolOps, MempoolFieldTopics(gossip),
                          MempoolFieldTopics(gossip'), TransactionTopics(gossip'))
          /\ NeededCalls]_vars

\* C40 case: a subscribe for another shard group unsubscribed the old topic and
\* its subscribe_topic failed, so the consensus service is on no topic and its
\* field is None, while the mempool service is still subscribed
C40_Witness ==
    /\ gossip.op[1] = "subscribe"
    /\ gossip.result = "Err"
    /\ Len(gossip.calls) = 2
    /\ gossip.calls[1].op = "unsubscribe_topic" /\ gossip.calls[1].ok
    /\ gossip.calls[2].op = "subscribe_topic" /\ ~gossip.calls[2].ok
    /\ gossip.is_subscribed = None
    /\ ConsensusTopics(gossip) = {}
    /\ gossip.mempool_is_subscribed # None

====
